---------------------------- MODULE Spec2Model ----------------------------
(***************************************************************************)
(* State-machine model of the streaming-avatar client:                     *)
(*   - the session/channel orchestrator   (src/src/hooks/useStreaming.ts)  *)
(*   - the inbound stream-message handlers                                 *)
(*       onStreamMessage      (src/src/hooks/useStreaming.ts)              *)
(*       handleStreamMessage  (src/src/components/ChatInterface/index.tsx) *)
(*   - the chat message list  (src/src/hooks/useMessageState.ts)           *)
(*                                                                         *)
(* The program is single threaded.  Every async function is cut at its     *)
(* awaits of an external collaborator (HTTP session API, RTC client): one  *)
(* action runs from one such await to the next.  A callback created by     *)
(* useCallback reads the React state of the render that created it, so an  *)
(* invocation records the values it captured when it was started.          *)
(***************************************************************************)
EXTENDS Integers, Sequences, FiniteSets, TLC

(***************************************************************************)
(* Bounds of the model.                                                    *)
(***************************************************************************)
\* concurrently running invocations of startStreaming / closeStreaming
MaxProcs == 2
\* operations started during a run (start / close clicks, token expiries, sends)
MaxOps == 3
\* frames kept by the chat list (chunks and system messages) in the frame specification
MaxFrames == 2
\* frames kept by the chat list (chunks and system messages) in the chat specification
MaxChatFrames == 3
\* chunks of the one chunked chat message the peer sends
NChunks == 2
\* the clock (Date.now()) runs from 0 to MaxTime
MaxTime == 1
\* sends started during a run (sendMessage calls and parameter pushes)
MaxSends == 2
\* the sender's clock advances by ClockStep milliseconds at a time, up to MaxClock
ClockStep == 500
MaxClock == 1000
\* entries of a chat list handed to the cleanup of system messages
MaxList == 17
\* calls of the microphone hook, and of the camera hook, during a run
MaxCalls == 3

Procs == 1..MaxProcs

VARIABLES
  apiSet,          \* App: api !== null (host and token were given)
  isJoined,        \* useStreaming state.isJoined
  connected,       \* useStreaming state.connected
  session,         \* useStreaming state.session: 0 = null, else the session's _id
  clientConn,      \* RTC client connection state
  joinOwner,       \* the invocation whose client.join is pending in the client (0: none)
  joinListeners,   \* the five listeners of joinChannel are registered on the client
  nqListeners,     \* number of 'network-quality' listeners on the client
  smListener,      \* onStreamMessage is registered for 'stream-message'
  chatListener,    \* handleStreamMessage is registered for 'stream-message'
  chatSeen,        \* value of connected for which ChatInterface's effects last ran
  procs,           \* the running invocations of startStreaming / closeStreaming
  ops,             \* operations started so far
  created,         \* sessions returned by createSession so far (their ids are 1..created)
  createCalls,     \* calls of api.createSession so far
  joinCalls,       \* calls of client.join so far
  closeCalls,      \* closeCalls[s]: calls of api.closeSession(s) so far
  alerts,          \* the alerts raised so far
  lastDone,        \* the operation that finished last
  messages,        \* useMessageState messages
  isAvatarSpeaking,\* AgoraContext isAvatarSpeaking
  now,             \* Date.now()
  rxlog,           \* chat chunks and acknowledgments handled by handleStreamMessage since the list was last cleared
  oldSeen,         \* a frame whose version is not 2 was delivered to a listener
  uncaught,        \* a stream-message listener threw on a frame
  micTrack,        \* audioTrackRef holds a live microphone track
  camTrack,        \* videoTrackRef holds a live camera track
  config,          \* the configuration App passes to useStreaming
  request,         \* the body of the last api.createSession call
  metadata,        \* the metadata of the last setAvatarParams call of joinChat
  leaveWithLiveTrack,  \* a closeStreaming called with a local track live called client.leave() while one still was
  sending,         \* useMessageState sending
  sends,           \* the sends started so far: their text, envelopes and progress
  txlog,           \* the frames the transport accepted, with the time of each
  clock,           \* the sender's clock in milliseconds
  arrived,         \* the frames of the latest chat send the peer received, in arrival order
  cleanupOf,       \* whether cleanupOldSystemMessages ran, and the list it last ran on
  paramsSeen,      \* the dependencies for which the parameter effect of useStreaming last ran
  initialPushes,   \* setAvatarParams calls since a start last reached connected, 0 after a parameter change
  pushedOffline,   \* setAvatarParams was called while connected was false
  inputMessage,    \* useMessageState inputMessage
  closure,         \* the state of the last render, which its handlers hold
  cam,             \* useVideoCamera: its state, videoTrackRef and the tracks created
  mic              \* useAudioControls: micEnabled, audioTrackRef and the tracks created

orchVars == <<apiSet, isJoined, connected, session, clientConn, joinOwner,
              joinListeners, nqListeners, smListener, procs, ops, created,
              createCalls, joinCalls, closeCalls, lastDone>>
chatVars == <<chatListener, chatSeen, messages, isAvatarSpeaking, now, rxlog,
              oldSeen, uncaught>>
\* The local media tracks of App (useAudioControls, useVideoCamera).
mediaVars == <<micTrack, camTrack, leaveWithLiveTrack>>

\* What the orchestrator's and the chat's own steps leave alone.
\* The configuration and what was last sent of it.
configVars == <<config, request, metadata>>

\* The outbound path: sendMessage, the chunker and the rate-paced sender.
sendVars == <<sending, sends, txlog, clock, arrived>>

\* What the effects of the hooks keep: the cleanup of the chat list and the
\* parameter pushes.
effectVars == <<cleanupOf, paramsSeen, initialPushes, pushedOffline>>

\* The hooks of the chat input and of the local devices.
hookVars == <<inputMessage, closure, cam, mic>>

extVars == <<mediaVars, configVars, sendVars, effectVars, hookVars>>

vars == <<orchVars, chatVars, alerts, extVars>>


\* The empty string.
EmptyText == <<>>

(***************************************************************************)
(* The configuration App passes to useStreaming, useStreaming.ts lines     *)
(* 52-64.                                                                  *)
(***************************************************************************)
NoString == ""
Strings == {NoString, "x"}
ModeTypes == {0, 2}
\* voiceParams, by the set of its keys
VoiceParamSets == {{}, {"rate"}}

Configs ==
  [avatarId : Strings, knowledgeId : Strings, sessionDuration : {0, 10},
   voiceId : Strings, voiceUrl : Strings, backgroundUrl : Strings,
   language : Strings, modeType : ModeTypes, voiceParams : VoiceParamSets]

\* App's initial state, App.tsx lines 27-40, with no environment variable set.
DefaultConfig ==
  [avatarId |-> "", knowledgeId |-> "", sessionDuration |-> 10, voiceId |-> "",
   voiceUrl |-> "", backgroundUrl |-> "", language |-> "x", modeType |-> 2,
   voiceParams |-> {}]

(***************************************************************************)
(* The orchestrator: useStreaming.ts                                       *)
(***************************************************************************)
SessionIds == 1..MaxOps

ConnStates == {"DISCONNECTED", "CONNECTING", "CONNECTED", "DISCONNECTING"}

\* A free slot of procs.
Idle ==
  [kind |-> "none", pc |-> "none", origin |-> "none", capJoined |-> FALSE,
   capSession |-> 0, capApi |-> FALSE, live |-> 0, active |-> FALSE, leaves |-> 0,
   joinedFrom |-> "none", tracks |-> FALSE, capConfig |-> DefaultConfig,
   caught |-> FALSE]

NoneDone == [kind |-> "none", origin |-> "none", live |-> 0, active |-> FALSE, ok |-> TRUE]

\* The orchestrator is active and at rest: a session was created, the channel
\* is joined, the data path is open and no invocation is running.
Active ==
  /\ session # 0 /\ isJoined /\ connected /\ clientConn = "CONNECTED"
  /\ \A p \in Procs : procs[p].kind = "none"

\* The invocations of the chat specifications do not overlap.
OneProc == {1}

\* slots: the slots of procs a specification lets invocations run in.
HasFree(slots) == \E p \in slots : procs[p].kind = "none"
FreeSlot(slots) == CHOOSE p \in slots : procs[p].kind = "none" /\ \A q \in slots : q < p => procs[q].kind # "none"

\* A variant of ApiMissing: startStreaming without its check of api.
ApiMissingNever(api) == FALSE

\* startStreaming, line 256: if (!api) { alert(...); return; }
ApiMissing(api) == ~api

\* A variant of NeedsLeave: joinChannel that never leaves first.
NeedsLeaveNever(capJoined) == FALSE

\* joinChannel, line 137: if (state.isJoined) { await leaveChannel(); }
\* state.isJoined is the value the running invocation captured.
NeedsLeave(capJoined) == capJoined

\* onTokenDidExpire is useCallback(..., []): it calls the closeStreaming of the
\* first render, whose state.session is the initial null (line 71) and whose api
\* is App's initial null, whatever the session is when the token expires.
ExpireCapSession(current) == 0
ExpireCapApi(current) == FALSE

\* A variant of ClickCapSession: closeStreaming memoised without state.session
\* among its dependencies sees the initial null.
ClickCapSessionStale(current) == 0

\* closeStreaming is rebuilt on every render ([api, leaveChat, leaveChannel,
\* state.session]): a click closes with the session and api of the last render.
ClickCapSession(current) == current
ClickCapApi(current) == current

\* client.join(...) is called by invocation p (line 147).  The client starts a
\* join only when it is disconnected; otherwise the call is refused, see JoinRejects.
JoinIssue(p, pr) ==
  /\ joinCalls' = joinCalls + 1
  /\ joinListeners' = TRUE
  /\ procs' = [procs EXCEPT ![p] = [pr EXCEPT !.pc = "join", !.joinedFrom = clientConn]]
  /\ IF clientConn = "DISCONNECTED"
       THEN clientConn' = "CONNECTING" /\ joinOwner' = p
       ELSE UNCHANGED <<clientConn, joinOwner>>

\* client.leave() is called (line 191): a pending join is abandoned.
LeaveIssue ==
  /\ clientConn' = IF clientConn = "DISCONNECTED" THEN "DISCONNECTED" ELSE "DISCONNECTING"
  /\ joinOwner' = 0

\* A variant of Finish: an invocation that catches what its awaits reject with
\* and returns normally.
FinishSwallowing(p, ok) ==
  /\ procs' = [procs EXCEPT ![p] = Idle]
  /\ lastDone' = [kind |-> procs[p].kind, origin |-> procs[p].origin,
                  live |-> procs[p].live, active |-> procs[p].active, ok |-> TRUE]

\* Invocation p returns (ok) or rejects (~ok) to its caller: startStreaming and
\* closeStreaming have no try/catch, so a rejected await rejects the invocation.
Finish(p, ok) ==
  /\ procs' = [procs EXCEPT ![p] = Idle]
  /\ lastDone' = [kind |-> procs[p].kind, origin |-> procs[p].origin,
                  live |-> procs[p].live, active |-> procs[p].active, ok |-> ok]

(***************************************************************************)
(* The configuration: the createSession request (useStreaming.ts lines     *)
(* 261-271) and the set-params metadata (lines 25-43, 195-207).  A field   *)
(* of a payload is [present, value]; an absent field keeps no value.       *)
(***************************************************************************)
Present(v) == [present |-> TRUE, value |-> v]
Absent(v) == [present |-> FALSE, value |-> v]

\* A variant of StringGiven: the field is spread whatever its value.
StringGivenAlways(v) == TRUE

\* value ? { field: value } : {} for a string / Boolean(value), lines 264-269 and 42
StringGiven(v) == v # NoString

\* modeType ? { mode_type: modeType } : {}, line 268 / Boolean(value), line 42
NumberGiven(n) == n # 0

\* voiceParams && Object.keys(voiceParams).length > 0, lines 270 and 27
ParamsGiven(keys) == Cardinality(keys) > 0

OptString(v) == IF StringGiven(v) THEN Present(v) ELSE Absent(NoString)
OptNumber(n) == IF NumberGiven(n) THEN Present(n) ELSE Absent(0)
OptParams(keys) == IF ParamsGiven(keys) THEN Present(keys) ELSE Absent({})

NoRequest ==
  [sent |-> FALSE, avatar_id |-> Absent(NoString), duration |-> Absent(0),
   knowledge_id |-> Absent(NoString), voice_id |-> Absent(NoString),
   voice_url |-> Absent(NoString), language |-> Absent(NoString),
   mode_type |-> Absent(0), background_url |-> Absent(NoString),
   voice_params |-> Absent({})]

\* The argument of api.createSession, lines 261-271.
CreateSessionRequest(cfg) ==
  [sent |-> TRUE,
   avatar_id |-> Present(cfg.avatarId),
   duration |-> Present(cfg.sessionDuration * 60),
   knowledge_id |-> OptString(cfg.knowledgeId),
   voice_id |-> OptString(cfg.voiceId),
   voice_url |-> OptString(cfg.voiceUrl),
   language |-> OptString(cfg.language),
   mode_type |-> OptNumber(cfg.modeType),
   background_url |-> OptString(cfg.backgroundUrl),
   voice_params |-> OptParams(cfg.voiceParams)]

NoMetadata ==
  [sent |-> FALSE, vid |-> Absent(NoString), vurl |-> Absent(NoString),
   lang |-> Absent(NoString), mode |-> Absent(0), bgurl |-> Absent(NoString),
   vparams |-> Absent({})]

\* buildAvatarMetadata, lines 31-43: the entries whose value is falsy are
\* filtered out; vparams is undefined unless voiceParams has a key (lines 26-28).
BuildAvatarMetadata(cfg) ==
  [sent |-> TRUE,
   vid |-> OptString(cfg.voiceId),
   vurl |-> OptString(cfg.voiceUrl),
   lang |-> OptString(cfg.language),
   mode |-> OptNumber(cfg.modeType),
   bgurl |-> OptString(cfg.backgroundUrl),
   vparams |-> OptParams(cfg.voiceParams)]

\* App, lines 48-52: the api object is created once host and token are present.
SetApi ==
  /\ ~apiSet
  /\ apiSet' = TRUE
  /\ UNCHANGED <<isJoined, connected, session, clientConn, joinOwner, joinListeners,
                 nqListeners, smListener, procs, ops, created, createCalls, joinCalls,
                 closeCalls, lastDone, chatVars, alerts>>
  /\ UNCHANGED extVars

\* startStreaming without api, lines 256-259.
StartNoApi ==
  /\ ops < MaxOps
  /\ ApiMissing(apiSet)
  /\ alerts' = alerts \cup {"no_api"}
  /\ ops' = ops + 1
  /\ lastDone' = [kind |-> "start", origin |-> "click", live |-> session,
                  active |-> Active, ok |-> FALSE]
  /\ UNCHANGED <<apiSet, isJoined, connected, session, clientConn, joinOwner,
                 joinListeners, nqListeners, smListener, procs, created, createCalls,
                 joinCalls, closeCalls, chatVars>>
  /\ UNCHANGED extVars

\* startStreaming up to await api.createSession(...), lines 255-271.
StartStreaming(slots) ==
  /\ ops < MaxOps
  /\ HasFree(slots)
  /\ ~ApiMissing(apiSet)
  /\ ops' = ops + 1
  /\ createCalls' = createCalls + 1
  /\ procs' = [procs EXCEPT ![FreeSlot(slots)] =
                 [Idle EXCEPT !.kind = "start", !.pc = "create", !.origin = "click",
                              !.capJoined = isJoined, !.capSession = session,
                              !.capApi = apiSet, !.live = session, !.active = Active,
                              !.capConfig = config]]
  /\ UNCHANGED <<apiSet, isJoined, connected, session, clientConn, joinOwner,
                 joinListeners, nqListeners, smListener, created, joinCalls,
                 closeCalls, lastDone, chatVars, alerts>>
  /\ request' = CreateSessionRequest(config)
  /\ UNCHANGED <<mediaVars, config, metadata, sendVars, effectVars, hookVars>>

\* createSession resolves: lines 272-277, then joinChannel up to its first await
\* (lines 133-147) or, when it must leave first, leaveChannel up to
\* await client.unpublish() (lines 175-186).
CreateSessionResolves(p) ==
  /\ procs[p].kind = "start" /\ procs[p].pc = "create"
  /\ created' = created + 1
  /\ session' = created + 1
  /\ IF NeedsLeave(procs[p].capJoined)
       THEN /\ isJoined' = FALSE
            /\ joinListeners' = FALSE
            /\ procs' = [procs EXCEPT ![p].pc = "unpublish"]
            /\ UNCHANGED <<clientConn, joinOwner, joinCalls>>
       ELSE /\ JoinIssue(p, procs[p])
            /\ UNCHANGED isJoined
  /\ UNCHANGED <<apiSet, connected, nqListeners, smListener, ops, createCalls,
                 closeCalls, lastDone, chatVars, alerts>>
  /\ UNCHANGED extVars

\* createSession rejects: startStreaming rejects at line 261.
CreateSessionRejects(p) ==
  /\ procs[p].kind = "start" /\ procs[p].pc = "create"
  /\ Finish(p, FALSE)
  /\ UNCHANGED <<apiSet, isJoined, connected, session, clientConn, joinOwner,
                 joinListeners, nqListeners, smListener, ops, created, createCalls,
                 joinCalls, closeCalls, chatVars, alerts>>
  /\ UNCHANGED extVars

\* client.unpublish() resolves, then client.leave() is called (line 191).
UnpublishSettles(p) ==
  /\ procs[p].pc = "unpublish"
  /\ LeaveIssue
  /\ procs' = [procs EXCEPT ![p].pc = "leave"]
  /\ UNCHANGED <<apiSet, isJoined, connected, session, joinListeners, nqListeners,
                 smListener, ops, created, createCalls, joinCalls, closeCalls,
                 lastDone, chatVars, alerts>>
  /\ leaveWithLiveTrack' = (leaveWithLiveTrack \/
                             (/\ procs[p].kind = "close" /\ procs[p].active /\ procs[p].tracks
                              /\ (micTrack \/ camTrack)))
  /\ UNCHANGED <<micTrack, camTrack, configVars, sendVars, effectVars, hookVars>>

\* A variant of CatchUnpublish: a leaveChannel without the try/catch, which a
\* rejected unpublish ends.
CatchUnpublishRethrow(rejected) == ~rejected

\* The try/catch around await client.unpublish(), lines 184-189: whether
\* leaveChannel goes on to client.leave() after the call resolved or rejected.
CatchUnpublish(rejected) == TRUE

\* client.unpublish() rejects: the rejection is caught and logged (lines
\* 187-189, recorded in caught), then client.leave() is called (line 191).
UnpublishRejects(p) ==
  /\ procs[p].pc = "unpublish"
  /\ IF CatchUnpublish(TRUE)
       THEN /\ LeaveIssue
            /\ procs' = [procs EXCEPT ![p].pc = "leave", ![p].caught = TRUE]
            /\ UNCHANGED lastDone
       ELSE /\ Finish(p, FALSE)
            /\ UNCHANGED <<clientConn, joinOwner>>
  /\ UNCHANGED <<apiSet, isJoined, connected, session, joinListeners, nqListeners,
                 smListener, ops, created, createCalls, joinCalls, closeCalls,
                 chatVars, alerts>>
  /\ leaveWithLiveTrack' = (leaveWithLiveTrack \/
                             (/\ CatchUnpublish(TRUE)
                              /\ procs[p].kind = "close" /\ procs[p].active /\ procs[p].tracks
                              /\ (micTrack \/ camTrack)))
  /\ UNCHANGED <<micTrack, camTrack, configVars, sendVars, effectVars, hookVars>>

\* client.leave() resolves inside joinChannel: the leave sequence is over and
\* joinChannel goes on to register its listeners and to join (lines 141-147).
LeaveResolvesInStart(p) ==
  /\ procs[p].kind = "start" /\ procs[p].pc = "leave"
  /\ LET conn == IF clientConn = "DISCONNECTING" THEN "DISCONNECTED" ELSE clientConn
         pr == [procs[p] EXCEPT !.leaves = @ + 1, !.pc = "join", !.joinedFrom = conn]
     IN /\ joinCalls' = joinCalls + 1
        /\ joinListeners' = TRUE
        /\ procs' = [procs EXCEPT ![p] = pr]
        /\ IF conn = "DISCONNECTED"
             THEN clientConn' = "CONNECTING" /\ joinOwner' = p
             ELSE UNCHANGED <<clientConn, joinOwner>>
  /\ UNCHANGED <<apiSet, isJoined, connected, session, nqListeners, smListener, ops,
                 created, createCalls, closeCalls, lastDone, chatVars, alerts>>
  /\ UNCHANGED extVars

\* client.leave() resolves inside closeStreaming, lines 297-301.
LeaveResolvesInClose(p) ==
  /\ procs[p].kind = "close" /\ procs[p].pc = "leave"
  /\ clientConn' = IF clientConn = "DISCONNECTING" THEN "DISCONNECTED" ELSE clientConn
  /\ IF procs[p].capSession # 0 /\ procs[p].capApi
       THEN /\ closeCalls' = [closeCalls EXCEPT ![procs[p].capSession] = @ + 1]
            /\ procs' = [procs EXCEPT ![p].pc = "closing", ![p].leaves = @ + 1]
            /\ UNCHANGED lastDone
       ELSE /\ Finish(p, TRUE)
            /\ UNCHANGED closeCalls
  /\ UNCHANGED <<apiSet, isJoined, connected, session, joinOwner, joinListeners,
                 nqListeners, smListener, ops, created, createCalls, joinCalls,
                 chatVars, alerts>>
  /\ UNCHANGED extVars

\* client.leave() rejects: the caller (joinChannel or closeStreaming) rejects.
LeaveRejects(p) ==
  /\ procs[p].pc = "leave"
  /\ Finish(p, FALSE)
  /\ UNCHANGED <<apiSet, isJoined, connected, session, clientConn, joinOwner,
                 joinListeners, nqListeners, smListener, ops, created, createCalls,
                 joinCalls, closeCalls, chatVars, alerts>>
  /\ UNCHANGED extVars

\* client.join resolves: lines 149-170, then joinChat up to
\* await setAvatarParams(...) (lines 210-213, 195-207).
JoinResolves(p) ==
  /\ procs[p].kind = "start" /\ procs[p].pc = "join"
  /\ joinOwner = p
  /\ clientConn' = "CONNECTED"
  /\ joinOwner' = 0
  /\ nqListeners' = nqListeners + 1
  /\ isJoined' = TRUE
  /\ smListener' = TRUE
  /\ connected' = TRUE
  /\ procs' = [procs EXCEPT ![p].pc = "params"]
  /\ UNCHANGED <<apiSet, session, joinListeners, ops, created, createCalls, joinCalls,
                 closeCalls, lastDone, chatVars, alerts>>
  /\ metadata' = BuildAvatarMetadata(procs[p].capConfig)
  /\ initialPushes' = 1
  /\ UNCHANGED <<mediaVars, config, request, sendVars, cleanupOf, paramsSeen, pushedOffline,
                 hookVars>>

\* client.join rejects (refused because the client is not disconnected, abandoned
\* by a leave, or failed): joinChannel and startStreaming reject at line 147.
JoinRejects(p) ==
  /\ procs[p].kind = "start" /\ procs[p].pc = "join"
  /\ IF joinOwner = p
       THEN clientConn' = "DISCONNECTED" /\ joinOwner' = 0
       ELSE UNCHANGED <<clientConn, joinOwner>>
  /\ Finish(p, FALSE)
  /\ UNCHANGED <<apiSet, isJoined, connected, session, joinListeners, nqListeners,
                 smListener, ops, created, createCalls, joinCalls, closeCalls,
                 chatVars, alerts>>
  /\ UNCHANGED extVars

\* setAvatarParams settles: startStreaming returns or rejects (line 278).
ParamsSettle(p) ==
  /\ procs[p].kind = "start" /\ procs[p].pc = "params"
  /\ \E ok \in BOOLEAN : Finish(p, ok)
  /\ UNCHANGED <<apiSet, isJoined, connected, session, clientConn, joinOwner,
                 joinListeners, nqListeners, smListener, ops, created, createCalls,
                 joinCalls, closeCalls, chatVars, alerts>>
  /\ UNCHANGED extVars

\* A variant of RemoveAllListeners: a leaveChat that leaves the listeners on.
RemoveAllListenersKeep(registered) == registered

\* client.removeAllListeners('stream-message'), line 217: whatever was
\* registered for the event, nothing is afterwards.
RemoveAllListeners(registered) == FALSE

\* closeStreaming up to await client.unpublish(): leaveChat (lines 216-219) and
\* leaveChannel (lines 175-186).  removeAllListeners('stream-message') also
\* removes ChatInterface's listener.
CloseBegin(slots, origin, capSession, capApi) ==
  /\ ops < MaxOps
  /\ HasFree(slots)
  /\ ops' = ops + 1
  /\ smListener' = RemoveAllListeners(smListener)
  /\ chatListener' = RemoveAllListeners(chatListener)
  /\ connected' = FALSE
  /\ isJoined' = FALSE
  /\ joinListeners' = FALSE
  /\ procs' = [procs EXCEPT ![FreeSlot(slots)] =
                 [Idle EXCEPT !.kind = "close", !.pc = "unpublish", !.origin = origin,
                              !.capSession = capSession, !.capApi = capApi,
                              !.live = session, !.active = Active,
                              !.tracks = (micTrack \/ camTrack)]]
  /\ UNCHANGED <<apiSet, session, clientConn, joinOwner, nqListeners, created,
                 createCalls, joinCalls, closeCalls, lastDone, chatSeen, messages,
                 isAvatarSpeaking, now, rxlog, oldSeen, uncaught>>
  /\ UNCHANGED extVars

\* closeStreaming called from the UI, lines 294-296.
CloseStreaming(slots) ==
  /\ CloseBegin(slots, "click", ClickCapSession(session), ClickCapApi(apiSet))
  /\ UNCHANGED alerts

\* The client emits 'token-privilege-did-expire': onTokenDidExpire, lines 88-91.
TokenDidExpire(slots) ==
  /\ joinListeners
  /\ clientConn = "CONNECTED"
  /\ alerts' = alerts \cup {"expired"}
  /\ CloseBegin(slots, "expire", ExpireCapSession(session), ExpireCapApi(apiSet))

\* api.closeSession(...) settles: closeStreaming returns or rejects (line 301).
CloseSessionSettles(p) ==
  /\ procs[p].kind = "close" /\ procs[p].pc = "closing"
  /\ \E ok \in BOOLEAN : Finish(p, ok)
  /\ UNCHANGED <<apiSet, isJoined, connected, session, clientConn, joinOwner,
                 joinListeners, nqListeners, smListener, ops, created, createCalls,
                 joinCalls, closeCalls, chatVars, alerts>>
  /\ UNCHANGED extVars


(***************************************************************************)
(* Inbound frames.  A frame is the byte string the client hands to the     *)
(* 'stream-message' listeners; shape tells what JSON.parse makes of it:    *)
(*   "garbage"  not JSON: JSON.parse throws a SyntaxError                  *)
(*   "null"     the JSON text null: destructuring it throws a TypeError    *)
(*   "obj"      a JSON object with the fields below; a field that is       *)
(*              missing reads as undefined ("undefined", hasPld = FALSE,   *)
(*              hasCode = FALSE)                                           *)
(***************************************************************************)
Frame(shape, v, type, mid, idx, fin, hasPld, text, event, cmd, hasCode, code) ==
  [shape |-> shape, v |-> v, type |-> type, mid |-> mid, idx |-> idx, fin |-> fin,
   hasPld |-> hasPld, text |-> text, event |-> event, cmd |-> cmd,
   hasCode |-> hasCode, code |-> code]

\* A piece of text: the text of chunk i of the peer's chunked chat message, and
\* what a missing text field reads as.  A message text is a sequence of pieces.
ChunkText(i) == <<"text", i>>
NoText == <<"undefined", 0>>

Garbage == Frame("garbage", 0, "undefined", "undefined", 0, FALSE, FALSE, NoText, "undefined", "undefined", FALSE, 0)
JsonNull == Frame("null", 0, "undefined", "undefined", 0, FALSE, FALSE, NoText, "undefined", "undefined", FALSE, 0)

\* Chunk i of the peer's chat message mid, in protocol version v.
Chunk(v, mid, i) ==
  Frame("obj", v, "chat", mid, i, i = NChunks - 1, TRUE, ChunkText(i), "undefined", "undefined", FALSE, 0)

EventFrame(v, mid, event) ==
  Frame("obj", v, "event", mid, 0, FALSE, TRUE, NoText, event, "undefined", FALSE, 0)

\* A command acknowledgment as ChatInterface reads it (type 'command').
AckFrame(v, mid, cmd, code) ==
  Frame("obj", v, "command", mid, 0, FALSE, TRUE, NoText, "undefined", cmd, TRUE, code)

\* A command response as useStreaming reads it (type 'cmd').
CmdFrame(v, mid, cmd, code) ==
  Frame("obj", v, "cmd", mid, 0, FALSE, TRUE, NoText, "undefined", cmd, TRUE, code)

\* An object of the given type without its pld field.
NoPldFrame(v, type, mid) ==
  Frame("obj", v, type, mid, 0, FALSE, FALSE, NoText, "undefined", "undefined", FALSE, 0)

ChunkFrames == {Chunk(2, "m1", i) : i \in 0..(NChunks - 1)}

\* The frames of the chat specification: the chunks of one message and a
\* command acknowledgment.
ChatFrames == ChunkFrames \cup {AckFrame(2, "m1", "set-params", 1000)}

\* The frames of the whole program: well-formed ones of both versions, and
\* malformed ones.
Frames ==
  {Chunk(2, "m1", 0), Chunk(2, "m1", 1),
   EventFrame(2, "m1", "audio_start"), EventFrame(2, "m1", "audio_end"),
   EventFrame(2, "m1", "undefined"),
   AckFrame(2, "m1", "set-params", 1000),
   CmdFrame(2, "m1", "set-params", 1001),
   Chunk(1, "m1", 0), EventFrame(1, "m1", "audio_start"),
   AckFrame(0, "m1", "interrupt", 1001), CmdFrame(1, "m1", "set-params", 1001),
   NoPldFrame(2, "cmd", "m1"), NoPldFrame(2, "chat", "m1"),
   Garbage, JsonNull}

(***************************************************************************)
(* onStreamMessage, useStreaming.ts lines 115-130.  No try/catch: what     *)
(* JSON.parse or a destructuring throws leaves the listener.               *)
(***************************************************************************)
\* line 119: if (v !== 2) { log(...); return; }
OrchVersionOk(v) == v = 2

OnStreamMessage(f) ==
  IF f.shape # "obj"
    THEN [threw |-> TRUE, alert |-> FALSE]                     \* line 118
  ELSE IF ~OrchVersionOk(f.v)
    THEN [threw |-> FALSE, alert |-> FALSE]                    \* lines 119-122
  ELSE IF f.type = "cmd"
    THEN IF ~f.hasPld
           THEN [threw |-> TRUE, alert |-> FALSE]              \* line 124
           ELSE [threw |-> FALSE, alert |-> ~(f.hasCode /\ f.code = 1000)]  \* lines 126-128
  ELSE [threw |-> FALSE, alert |-> FALSE]

(***************************************************************************)
(* addReceivedMessage, useMessageState.ts lines 138-192.                   *)
(***************************************************************************)
\* Index of the first message with the given id, 0 if there is none (findIndex).
\* A variant of FindIndex that finds nothing.
FindIndexNone(msgs, id) == 0

\* prev.findIndex((msg) => msg.id === id) + 1: the first place of the id, 0 if
\* there is none.
FindIndex(msgs, id) ==
  IF \E i \in 1..Len(msgs) : msgs[i].id = id
    THEN CHOOSE i \in 1..Len(msgs) : msgs[i].id = id /\ \A j \in 1..(i - 1) : msgs[j].id # id
    ELSE 0

\* A variant of ExtendText in which a further chunk replaces the text.
ExtendTextReplace(old, text) == text

\* The text of an existing message after a further chunk, line 171.
ExtendText(old, text) == old \o text

\* A variant of AddSystemMessage that drops a system message whose messageId the list already holds.
AddSystemMessageOnce(msgs, messageId, text, systemType, t) ==
  IF \E i \in 1..Len(msgs) : msgs[i].isSystemMessage /\ msgs[i].id[1] = messageId[1]
                             /\ msgs[i].id[2] = messageId[2]
    THEN msgs
    ELSE Append(msgs, [id |-> <<messageId[1], messageId[2], t>>, text |-> text,
                       isSentByMe |-> FALSE, isSystemMessage |-> TRUE,
                       systemType |-> systemType, timestamp |-> t])

\* A new system message is appended whatever the list holds, lines 149-162.
AddSystemMessage(msgs, messageId, text, systemType, t) ==
  Append(msgs, [id |-> <<messageId[1], messageId[2], t>>, text |-> text,
                isSentByMe |-> FALSE, isSystemMessage |-> TRUE,
                systemType |-> systemType, timestamp |-> t])

AddReceivedMessage(msgs, messageId, text, isSystemMessage, systemType, t) ==
  IF isSystemMessage
    THEN AddSystemMessage(msgs, messageId, text, systemType, t)
  ELSE LET k == FindIndex(msgs, messageId)
       IN IF k # 0
            THEN [msgs EXCEPT ![k].text = ExtendText(msgs[k].text, text)]   \* lines 166-175
            ELSE Append(msgs, [id |-> messageId, text |-> text, isSentByMe |-> FALSE,
                               isSystemMessage |-> FALSE, systemType |-> "undefined",
                               timestamp |-> t])                              \* lines 177-188

(***************************************************************************)
(* handleStreamMessage, ChatInterface/index.tsx lines 399-452.  The whole  *)
(* body is in a try/catch that logs: nothing is thrown to the client.      *)
(* The result is the message list and the avatar-speaking flag after it.   *)
(***************************************************************************)
\* A variant of ChatVersionOk: handleStreamMessage without its version check.
ChatVersionAny(v) == TRUE

\* line 404: if (v !== 2) { return; }
ChatVersionOk(v) == v = 2

\* The text of a command acknowledgment, lines 429-434.
AckText(f) ==
  <<<<IF f.code = 1000 THEN "ok" ELSE "failed", 0>>, <<f.cmd, 0>>,
    <<IF f.code = 1000 THEN "Success" ELSE "Failed", 0>>>>

HandleStreamMessage(f, msgs, speaking, t) ==
  LET same == [messages |-> msgs, speaking |-> speaking]
  IN IF f.shape # "obj" THEN same                                          \* line 403, caught
     ELSE IF ~ChatVersionOk(f.v) THEN same                                 \* lines 404-406
     ELSE IF f.type = "chat"
       THEN IF ~f.hasPld THEN same                                         \* line 409, caught
            ELSE [messages |-> AddReceivedMessage(msgs, <<"chat", f.mid>>,
                                 <<f.text>>,
                                 FALSE, "undefined", t),
                  speaking |-> speaking]                                   \* line 410
     ELSE IF f.type = "event"
       THEN IF ~f.hasPld THEN same                                         \* line 412, caught
            ELSE IF f.event = "audio_start"
              THEN [messages |-> AddReceivedMessage(msgs, <<"event", f.mid>>,
                                   <<<<"Avatar started speaking", 0>>>>, TRUE, "avatar_audio_start", t),
                    speaking |-> TRUE]                                     \* lines 413-415
            ELSE IF f.event = "audio_end"
              THEN [messages |-> AddReceivedMessage(msgs, <<"event", f.mid>>,
                                   <<<<"Avatar finished speaking", 0>>>>, TRUE, "avatar_audio_end", t),
                    speaking |-> FALSE]                                    \* lines 416-418
            ELSE [messages |-> AddReceivedMessage(msgs, <<"event", f.mid>>,
                                 <<<<"Event", 0>>, <<f.event, 0>>>>, TRUE, "undefined", t),
                  speaking |-> speaking]                                   \* lines 421-423
     ELSE IF f.type = "command"
       THEN IF ~f.hasPld THEN same                                         \* line 426, caught
            ELSE IF f.hasCode
              THEN [messages |-> AddReceivedMessage(msgs, <<"cmd_ack", f.mid>>, AckText(f), TRUE,
                                   IF f.cmd = "interrupt" THEN "interrupt_ack" ELSE "set_params_ack", t),
                    speaking |-> speaking]                                 \* lines 427-437
              ELSE [messages |-> AddReceivedMessage(msgs, <<"cmd_send", f.mid>>, <<<<"sent", 0>>, <<f.cmd, 0>>>>, TRUE,
                                   IF f.cmd = "interrupt" THEN "interrupt" ELSE "set_params", t),
                    speaking |-> speaking]                                 \* lines 438-444
     ELSE same

\* handleStreamMessage passes this frame's text to addReceivedMessage as a chat chunk.
IsChatChunk(f) == f.shape = "obj" /\ ChatVersionOk(f.v) /\ f.type = "chat" /\ f.hasPld

\* handleStreamMessage takes this frame for a command acknowledgment, lines 424-437.
IsAck(f) ==
  f.shape = "obj" /\ ChatVersionOk(f.v) /\ f.type = "command" /\ f.hasPld /\ f.hasCode

\* What the chat list holds of the frames received: the chunks and
\* acknowledgments handled, and the other system messages.
Load ==
  Len(rxlog) + Cardinality({i \in 1..Len(messages) :
                              messages[i].isSystemMessage /\ messages[i].id[1] # "cmd_ack"})

\* The client emits 'stream-message': every registered listener is called with
\* the frame.  A frame on which onStreamMessage throws is one on which
\* handleStreamMessage changes nothing, so whether the client goes on to the next
\* listener after a throw makes no difference.
StreamMessage(f, limit) ==
  /\ Load < limit
  /\ clientConn = "CONNECTED"
  /\ smListener \/ chatListener
  /\ LET orch == IF smListener THEN OnStreamMessage(f) ELSE [threw |-> FALSE, alert |-> FALSE]
         chat == IF chatListener
                   THEN HandleStreamMessage(f, messages, isAvatarSpeaking, now)
                   ELSE [messages |-> messages, speaking |-> isAvatarSpeaking]
     IN /\ uncaught' = (uncaught \/ orch.threw)
        /\ alerts' = IF orch.alert THEN alerts \cup {"cmd_failed"} ELSE alerts
        /\ messages' = chat.messages
        /\ isAvatarSpeaking' = chat.speaking
        /\ rxlog' = IF chatListener /\ IsChatChunk(f) THEN Append(rxlog, <<"chat", f.mid, f.idx>>)
                    ELSE IF chatListener /\ IsAck(f) THEN Append(rxlog, <<"command", f.mid, 0>>)
                    ELSE rxlog
  /\ oldSeen' = (oldSeen \/ (f.shape = "obj" /\ f.v # 2 /\ smListener /\ chatListener))
  /\ UNCHANGED <<orchVars, chatListener, chatSeen, now>>
  /\ UNCHANGED extVars

\* ChatInterface's effects on connected, lines 454-476: listen while connected,
\* clear the list (clearMessages, useMessageState.ts lines 194-197) when not.
ChatEffectBody ==
  /\ chatSeen' = connected
  /\ IF connected
       THEN chatListener' = TRUE /\ UNCHANGED <<messages, rxlog, inputMessage>>
       ELSE /\ chatListener' = FALSE
            /\ messages' = <<>> /\ rxlog' = <<>> /\ inputMessage' = EmptyText

\* The effects run after a render in which connected changed.
ChatEffects ==
  /\ chatSeen # connected
  /\ ChatEffectBody
  /\ UNCHANGED <<orchVars, isAvatarSpeaking, now, oldSeen, uncaught, alerts>>
  /\ UNCHANGED <<mediaVars, configVars, sendVars, effectVars, closure, cam, mic>>

\* Time passes.  Date.now() is read by addReceivedMessage alone, so the clock is
\* advanced only while handleStreamMessage is registered.
Tick ==
  /\ chatListener
  /\ now < MaxTime
  /\ now' = now + 1
  /\ UNCHANGED <<orchVars, chatListener, chatSeen, messages, isAvatarSpeaking, rxlog,
                 oldSeen, uncaught, alerts>>
  /\ UNCHANGED extVars

(***************************************************************************)
(* Local media (App.tsx, useAudioControls.ts, useVideoCamera.ts) and the   *)
(* client's 'exception' event.                                             *)
(***************************************************************************)
\* toggleMic with the microphone off, useAudioControls.ts lines 19-34: a track is
\* created, published and kept in audioTrackRef.
EnableMic ==
  /\ ops < MaxOps
  /\ connected /\ ~micTrack
  /\ ops' = ops + 1
  /\ micTrack' = TRUE
  /\ UNCHANGED <<apiSet, isJoined, connected, session, clientConn, joinOwner,
                 joinListeners, nqListeners, smListener, procs, created, createCalls,
                 joinCalls, closeCalls, lastDone, chatVars, alerts, camTrack,
                 leaveWithLiveTrack, configVars, sendVars, effectVars, hookVars>>

\* toggleCameraInternal with the camera off (ChatInterface/index.tsx lines
\* 504-516, nothing happens unless connected), enableCamera (useVideoCamera.ts
\* lines 20-45): a track is created and kept in videoTrackRef.
EnableCamera ==
  /\ ops < MaxOps
  /\ connected /\ ~camTrack
  /\ ops' = ops + 1
  /\ camTrack' = TRUE
  /\ UNCHANGED <<apiSet, isJoined, connected, session, clientConn, joinOwner,
                 joinListeners, nqListeners, smListener, procs, created, createCalls,
                 joinCalls, closeCalls, lastDone, chatVars, alerts, micTrack,
                 leaveWithLiveTrack, configVars, sendVars, effectVars, hookVars>>

\* App's effect on connected, App.tsx lines 71-82: once connected is false the
\* enabled tracks are stopped and closed (useAudioControls.ts lines 57-61,
\* useVideoCamera.ts lines 95-97).  The effect runs after a render, at no fixed
\* point of the running closeStreaming.
MediaCleanupEffect ==
  /\ ~connected
  /\ micTrack \/ camTrack
  /\ micTrack' = FALSE /\ camTrack' = FALSE
  /\ UNCHANGED <<orchVars, chatVars, alerts, leaveWithLiveTrack, configVars, sendVars, effectVars, hookVars>>

\* The client emits 'exception': onException only logs, useStreaming.ts lines 80-82.
OnException ==
  /\ ops < MaxOps
  /\ joinListeners /\ clientConn = "CONNECTED"
  /\ ops' = ops + 1
  /\ UNCHANGED <<apiSet, isJoined, connected, session, clientConn, joinOwner,
                 joinListeners, nqListeners, smListener, procs, created, createCalls,
                 joinCalls, closeCalls, lastDone, chatVars, alerts, extVars>>


(***************************************************************************)
(* The microphone hook, useAudioControls.ts, the button of ChatInterface   *)
(* that calls it and the effect of App that cleans up.                     *)
(***************************************************************************)
\* micEnabled, audioTrackRef (0 is null), the number of tracks created, the
\* tracks not closed, and the calls of toggleMic and cleanup made so far with
\* the await each one is at.
NoMic == [enabled |-> FALSE, ref |-> 0, made |-> 0, open |-> {}, calls |-> <<>>]

\* One call: kind is "toggle" or "cleanup", pc the await it is at ("done" once
\* it returned), track the track it holds, wasEnabled the micEnabled of the
\* render that built the handler.
MicCall(kind, pc, track, wasEnabled) ==
  [kind |-> kind, pc |-> pc, track |-> track, wasEnabled |-> wasEnabled]

\* audioTrackRef holds a track that is not closed.
MicLive(m) == m.ref # 0 /\ m.ref \in m.open

\* toggleMicInternal after its await, ChatInterface/index.tsx lines 486-490:
\* the system message tells what the click meant to do.
MicMessage(msgs, wasEnabled, t) ==
  IF wasEnabled
    THEN AddReceivedMessage(msgs, <<"mic", t>>, <<<<"User microphone disabled", 0>>>>, TRUE, "mic_end", t)
    ELSE AddReceivedMessage(msgs, <<"mic", t>>, <<<<"User microphone enabled", 0>>>>, TRUE, "mic_start", t)

\* What the steps of the microphone hook leave alone.
MicFrame ==
  /\ micTrack' = MicLive(mic')
  /\ UNCHANGED <<orchVars, chatListener, chatSeen, isAvatarSpeaking, now, rxlog, oldSeen,
                 uncaught, alerts, camTrack, leaveWithLiveTrack, configVars, sendVars,
                 effectVars, inputMessage, closure, cam>>

\* The microphone button is clicked (enabled while connected, line 548):
\* toggleMicInternal calls the toggleMic of the last render, which runs up to
\* its first await, useAudioControls.ts lines 19-22 and 39-44.  With no track to
\* unpublish nothing is awaited, lines 41-47.
ToggleMicInternal ==
  /\ closure.connected
  /\ Len(mic.calls) < MaxCalls
  /\ IF ~closure.mic
       THEN /\ mic' = [mic EXCEPT !.calls = Append(@, MicCall("toggle", "create", 0, FALSE))]
            /\ UNCHANGED messages
     ELSE IF mic.ref # 0
       THEN /\ mic' = [mic EXCEPT !.open = @ \ {mic.ref},
                                  !.calls = Append(@, MicCall("toggle", "unpublish", mic.ref, TRUE))]
            /\ UNCHANGED messages
     ELSE /\ mic' = [mic EXCEPT !.enabled = FALSE,
                                !.calls = Append(@, MicCall("toggle", "done", 0, TRUE))]
          /\ messages' = MicMessage(messages, TRUE, now)
  /\ MicFrame

\* createMicrophoneAudioTrack resolves, line 22: applyNoiseReduction is awaited.
MicCreateResolves(i) ==
  /\ i <= Len(mic.calls) /\ mic.calls[i].pc = "create"
  /\ mic' = [mic EXCEPT !.made = @ + 1, !.open = @ \cup {mic.made + 1},
                        !.calls[i].track = mic.made + 1, !.calls[i].pc = "noise"]
  /\ UNCHANGED messages
  /\ MicFrame

\* createMicrophoneAudioTrack rejects: the catch of lines 35-38, then the
\* message of toggleMicInternal.
MicCreateRejects(i) ==
  /\ i <= Len(mic.calls) /\ mic.calls[i].pc = "create"
  /\ mic' = [mic EXCEPT !.enabled = FALSE, !.calls[i].pc = "done"]
  /\ messages' = MicMessage(messages, mic.calls[i].wasEnabled, now)
  /\ MicFrame

\* applyNoiseReduction returns (useNoiseReduction.ts lines 64-89: it catches
\* its own failures), line 30, and client.publish is awaited; cleanup's
\* cleanupNoiseReduction returns (lines 138-150, it catches too), lines 64-65.
MicNoiseSettles(i) ==
  /\ i <= Len(mic.calls) /\ mic.calls[i].pc = "noise"
  /\ mic' = IF mic.calls[i].kind = "toggle"
              THEN [mic EXCEPT !.calls[i].pc = "publish"]
              ELSE [mic EXCEPT !.enabled = FALSE, !.calls[i].pc = "done"]
  /\ UNCHANGED messages
  /\ MicFrame

\* client.publish resolves, lines 32-34.
MicPublishResolves(i) ==
  /\ i <= Len(mic.calls) /\ mic.calls[i].pc = "publish"
  /\ mic' = [mic EXCEPT !.ref = mic.calls[i].track, !.enabled = TRUE, !.calls[i].pc = "done"]
  /\ messages' = MicMessage(messages, mic.calls[i].wasEnabled, now)
  /\ MicFrame

\* client.publish rejects: the catch of lines 35-38 sets micEnabled and
\* nothing else.
MicPublishRejects(i) ==
  /\ i <= Len(mic.calls) /\ mic.calls[i].pc = "publish"
  /\ mic' = [mic EXCEPT !.enabled = FALSE, !.calls[i].pc = "done"]
  /\ messages' = MicMessage(messages, mic.calls[i].wasEnabled, now)
  /\ MicFrame

\* client.unpublish resolves: lines 45-47 of toggleMic, lines 61-64 of cleanup.
MicUnpublishResolves(i) ==
  /\ i <= Len(mic.calls) /\ mic.calls[i].pc = "unpublish"
  /\ IF mic.calls[i].kind = "toggle"
       THEN /\ mic' = [mic EXCEPT !.ref = 0, !.enabled = FALSE, !.calls[i].pc = "done"]
            /\ messages' = MicMessage(messages, mic.calls[i].wasEnabled, now)
       ELSE /\ mic' = [mic EXCEPT !.ref = 0, !.calls[i].pc = "noise"]
            /\ UNCHANGED messages
  /\ MicFrame

\* client.unpublish rejects: the catch only logs, lines 48-50 and 66-68.
MicUnpublishRejects(i) ==
  /\ i <= Len(mic.calls) /\ mic.calls[i].pc = "unpublish"
  /\ mic' = [mic EXCEPT !.calls[i].pc = "done"]
  /\ messages' = IF mic.calls[i].kind = "toggle"
                   THEN MicMessage(messages, mic.calls[i].wasEnabled, now)
                   ELSE messages
  /\ MicFrame

\* One await of a running call of the microphone hook settles.
MicStep(i) ==
  \/ MicCreateResolves(i)
  \/ MicCreateRejects(i)
  \/ MicNoiseSettles(i)
  \/ MicPublishResolves(i)
  \/ MicPublishRejects(i)
  \/ MicUnpublishResolves(i)
  \/ MicUnpublishRejects(i)

\* cleanup up to its first await, useAudioControls.ts lines 55-64.
AudioCleanupBegin(m) ==
  IF m.ref # 0
    THEN [m EXCEPT !.open = @ \ {m.ref},
                   !.calls = Append(@, MicCall("cleanup", "unpublish", m.ref, TRUE))]
    ELSE [m EXCEPT !.calls = Append(@, MicCall("cleanup", "noise", 0, TRUE))]

\* The dependencies of App's cleanup effect changed since the last render,
\* App.tsx line 82.
AppDepsChanged ==
  closure.connected # connected \/ closure.mic # mic.enabled \/ closure.camera # cam.enabled

\* App's effect calls cleanupAudio, App.tsx lines 73-77.
AudioCleanupDue == AppDepsChanged /\ ~connected /\ mic.enabled

\* App's effect calls cleanupCamera, App.tsx lines 73-80.
CameraCleanupDue == AppDepsChanged /\ ~connected /\ cam.enabled

(***************************************************************************)
(* The camera hook, useVideoCamera.ts, and the button of ChatInterface     *)
(* that calls it.                                                          *)
(***************************************************************************)
\* cameraEnabled, localVideoTrack and videoTrackRef (0 is null), whether
\* cameraError is set, the number of tracks created, the tracks not closed,
\* and the calls of enableCamera and disableCamera made so far.
NoCamera ==
  [enabled |-> FALSE, local |-> 0, error |-> FALSE, ref |-> 0, made |-> 0, open |-> {},
   calls |-> <<>>]

\* One call: kind is "enable" or "disable", pc the await it is at, "resolved"
\* once it returned from its try block and "failed" once from its catch block.
CameraCall(kind, pc) == [kind |-> kind, pc |-> pc]

\* videoTrackRef holds a track that is not closed.
CameraLive(c) == c.ref # 0 /\ c.ref \in c.open

\* The system message of toggleCameraInternal, ChatInterface/index.tsx lines
\* 509-513.
CameraMessage(msgs, wasEnabled, t) ==
  IF wasEnabled
    THEN AddReceivedMessage(msgs, <<"camera", t>>, <<<<"User camera disabled", 0>>>>, TRUE, "camera_end", t)
    ELSE AddReceivedMessage(msgs, <<"camera", t>>, <<<<"User camera enabled", 0>>>>, TRUE, "camera_start", t)

\* What the steps of the camera hook leave alone.
CameraFrame ==
  /\ camTrack' = CameraLive(cam')
  /\ UNCHANGED <<orchVars, chatListener, chatSeen, isAvatarSpeaking, now, rxlog, oldSeen,
                 uncaught, alerts, micTrack, leaveWithLiveTrack, configVars, sendVars,
                 effectVars, inputMessage, closure, mic>>

\* enableCamera up to its await, useVideoCamera.ts lines 20-33: the track of
\* videoTrackRef is enabled again, a track is created when there is none.
EnableCameraBegin(c) ==
  IF c.ref # 0
    THEN [c EXCEPT !.error = FALSE, !.calls = Append(@, CameraCall("enable", "setEnabled"))]
    ELSE [c EXCEPT !.error = FALSE, !.calls = Append(@, CameraCall("enable", "create"))]

\* disableCamera up to its await, lines 68-72; with no track nothing is
\* awaited, lines 75-77.
DisableCameraBegin(c) ==
  IF c.ref # 0
    THEN [c EXCEPT !.calls = Append(@, CameraCall("disable", "setEnabled"))]
    ELSE [c EXCEPT !.enabled = FALSE, !.local = 0, !.error = FALSE,
                   !.calls = Append(@, CameraCall("disable", "resolved"))]

\* The camera button is clicked (enabled while connected, line 556):
\* toggleCameraInternal of the last render returns unless connected, adds its
\* system message and calls toggleCamera (useVideoCamera.ts lines 85-91), lines
\* 504-516.
ToggleCameraInternal ==
  /\ closure.connected
  /\ Len(cam.calls) < MaxCalls
  /\ messages' = CameraMessage(messages, closure.camera, now)
  /\ cam' = IF closure.camera THEN DisableCameraBegin(cam) ELSE EnableCameraBegin(cam)
  /\ CameraFrame

\* createCameraVideoTrack resolves, lines 33-45.
CameraCreateResolves(i) ==
  /\ i <= Len(cam.calls) /\ cam.calls[i].pc = "create"
  /\ cam' = [cam EXCEPT !.made = @ + 1, !.open = @ \cup {cam.made + 1},
                        !.ref = cam.made + 1, !.local = cam.made + 1, !.enabled = TRUE,
                        !.calls[i].pc = "resolved"]
  /\ UNCHANGED messages
  /\ CameraFrame

\* createCameraVideoTrack rejects: the catch of lines 48-65.
CameraCreateRejects(i) ==
  /\ i <= Len(cam.calls) /\ cam.calls[i].pc = "create"
  /\ cam' = [cam EXCEPT !.error = TRUE, !.enabled = FALSE, !.local = 0,
                        !.calls[i].pc = "failed"]
  /\ UNCHANGED messages
  /\ CameraFrame

\* setEnabled resolves: enableCamera goes on with what videoTrackRef holds by
\* then, lines 27-29; disableCamera with lines 75-77.
CameraSetEnabledResolves(i) ==
  /\ i <= Len(cam.calls) /\ cam.calls[i].pc = "setEnabled"
  /\ cam' = IF cam.calls[i].kind = "enable"
              THEN [cam EXCEPT !.local = cam.ref, !.enabled = TRUE, !.calls[i].pc = "resolved"]
              ELSE [cam EXCEPT !.enabled = FALSE, !.local = 0, !.error = FALSE,
                               !.calls[i].pc = "resolved"]
  /\ UNCHANGED messages
  /\ CameraFrame

\* setEnabled rejects: the catch of enableCamera, lines 48-65; the catch of
\* disableCamera only logs, lines 80-82.
CameraSetEnabledRejects(i) ==
  /\ i <= Len(cam.calls) /\ cam.calls[i].pc = "setEnabled"
  /\ cam' = IF cam.calls[i].kind = "enable"
              THEN [cam EXCEPT !.error = TRUE, !.enabled = FALSE, !.local = 0,
                               !.calls[i].pc = "failed"]
              ELSE [cam EXCEPT !.calls[i].pc = "failed"]
  /\ UNCHANGED messages
  /\ CameraFrame

\* One await of a running call of the camera hook settles.
CameraStep(i) ==
  \/ CameraCreateResolves(i)
  \/ CameraCreateRejects(i)
  \/ CameraSetEnabledResolves(i)
  \/ CameraSetEnabledRejects(i)

\* cleanup, lines 94-102: nothing is awaited.
CameraCleanup(c) ==
  [c EXCEPT !.open = IF c.ref # 0 THEN @ \ {c.ref} ELSE @, !.ref = 0,
            !.local = 0, !.enabled = FALSE, !.error = FALSE]

(***************************************************************************)
(* The outbound path.  sendMessage is useMessageState.ts lines 110-136; it *)
(* awaits sendMessageToAvatar of agoraHelper.ts.  The chunker and the      *)
(* rate-paced sender behind that call follow the protocol notes of the     *)
(* repository (maximum encoded message size, rate limit) and the split and *)
(* send operations of the specification, sections 4.2 and 4.3.             *)
(***************************************************************************)
\* Maximum encoded size of one envelope, in bytes.
MaxFrameBytes == 950
\* The bytes the sender may transmit in any window of WindowMs milliseconds.
ByteBudget == 6000
WindowMs == 1000

\* Encoded size of an envelope around its text: {v, type, mid, pld}.
FrameOverhead == 50
\* Encoded size of the idx and fin fields of a chunk.
ChunkFieldsBytes == 20
\* Encoded size of a set-params command envelope.
ParamsBytes == 400

Min(a, b) == IF a < b THEN a ELSE b

\* A text is a sequence of runs: k characters of w bytes each in UTF-8.
Run(w, k) == [w |-> w, k |-> k]
Ascii(n) == <<Run(1, n)>>
Cjk(n) == <<Run(3, n)>>
Mixed(n) == <<Run(1, n), Run(4, n), Run(2, n)>>

\* Number of characters of a text.
RECURSIVE TextLen(_)
TextLen(t) == IF t = <<>> THEN 0 ELSE Head(t).k + TextLen(Tail(t))

\* Bytes of the first n characters of a text.
RECURSIVE PrefixBytes(_, _)
PrefixBytes(t, n) ==
  IF t = <<>> \/ n <= 0 THEN 0
  ELSE Min(n, Head(t).k) * Head(t).w + PrefixBytes(Tail(t), n - Head(t).k)

\* Bytes of characters lo..hi of a text.
RangeBytes(t, lo, hi) == PrefixBytes(t, hi) - PrefixBytes(t, lo - 1)

\* The run holding character i, and i's place in that run, searched from run r.
RECURSIVE Locate(_, _, _)
Locate(t, r, i) ==
  IF r >= Len(t) \/ i <= t[r].k THEN <<r, i>> ELSE Locate(t, r + 1, i - t[r].k)

\* Character i of a text: its width and its place.
CharAt(t, i) == <<t[Locate(t, 1, i)[1]].w, i>>

\* Characters lo..hi of a text.
Piece(t, lo, hi) == [i \in 1..(hi - lo + 1) |-> CharAt(t, lo + i - 1)]

\* Encoded size of the single-frame envelope of a text.
EncodedSize(t) == FrameOverhead + PrefixBytes(t, TextLen(t))

\* How many whole characters fit in room bytes, from run r on with the first
\* skip characters of that run left out.  A character is taken whole or not at all.
RECURSIVE Fit(_, _, _, _)
Fit(t, r, skip, room) ==
  IF r > Len(t) THEN 0
  ELSE LET avail == t[r].k - skip
           take == Min(avail, room \div t[r].w)
       IN IF take < avail THEN take
          ELSE take + Fit(t, r + 1, 0, room - take * t[r].w)

\* A variant of SingleRoom that allows for the fields of a chunk.
SingleRoomTight == MaxFrameBytes - FrameOverhead - ChunkFieldsBytes

\* Bytes of text a single-frame envelope has room for.
SingleRoom == MaxFrameBytes - FrameOverhead

\* A variant of ChunkRoom that leaves the idx and fin fields out of account.
ChunkRoomLoose == MaxFrameBytes - FrameOverhead

\* Bytes of text a chunk has room for.
ChunkRoom == MaxFrameBytes - FrameOverhead - ChunkFieldsBytes

\* An envelope of type chat carrying characters lo..hi of the text.  hasIdx: the
\* envelope has the idx and fin fields.
Envelope(hasIdx, idx, fin, lo, hi, bytes) ==
  [type |-> "chat", hasIdx |-> hasIdx, idx |-> idx, fin |-> fin, lo |-> lo, hi |-> hi,
   bytes |-> bytes]

\* The set-params command envelope.
ParamsEnvelope ==
  [type |-> "command", hasIdx |-> FALSE, idx |-> 0, fin |-> FALSE, lo |-> 1, hi |-> 0,
   bytes |-> ParamsBytes]

\* The chunks of a text from character lo on, the first of them with index idx.
RECURSIVE Chunks(_, _, _)
Chunks(t, lo, idx) ==
  LET at == Locate(t, 1, lo)
      hi == lo + Fit(t, at[1], at[2] - 1, ChunkRoom) - 1
      e == Envelope(TRUE, idx, hi = TextLen(t), lo, hi,
                    FrameOverhead + ChunkFieldsBytes + RangeBytes(t, lo, hi))
  IN IF hi >= TextLen(t) \/ hi < lo THEN <<e>> ELSE <<e>> \o Chunks(t, hi + 1, idx + 1)

\* split: one envelope without idx when the text fits a single frame, its chunks otherwise.
Split(t) ==
  IF PrefixBytes(t, TextLen(t)) <= SingleRoom
    THEN <<Envelope(FALSE, 0, FALSE, 1, TextLen(t), EncodedSize(t))>>
    ELSE Chunks(t, 1, 0)

\* The peer's reassembly by index: the pieces of the frames received, in the
\* order of their idx.
RECURSIVE PiecesFrom(_, _, _)
PiecesFrom(t, fs, i) ==
  IF \E j \in 1..Len(fs) : fs[j].idx = i
    THEN LET j == CHOOSE j \in 1..Len(fs) : fs[j].idx = i
         IN Piece(t, fs[j].lo, fs[j].hi) \o PiecesFrom(t, fs, i + 1)
    ELSE <<>>

ReassembleByIndex(t, fs) == PiecesFrom(t, fs, 0)

\* The texts of the chunker specification: around the single-frame limit, in
\* one-byte and multi-byte characters, and of three chunks.
SplitTexts ==
  {Ascii(1), Ascii(900), Ascii(901), Cjk(300), Cjk(301), Mixed(128), Mixed(129), Ascii(2000)}

\* The texts of the pacer specification: more than the budget of one window.
PacerTexts == {Ascii(10), Ascii(6300), Cjk(2100)}

\* A send: who started it, its text, its envelopes, how many of them were
\* transmitted, and whether it is running, done or failed.
NewSend(from, t, envs) ==
  [from |-> from, text |-> t, envs |-> envs, pos |-> 0, state |-> "running"]

\* messageId of the k-th send: Date.now().toString(), line 116.  Two sends are
\* apart in time, so their ids differ.
MessageId(k) == <<"sent", ToString(k)>>

\* A variant of RemoveMessage that keeps the message.
RemoveMessageKeep(msgs, id) == msgs

\* The list without the message of a failed send, line 130.
RemoveMessage(msgs, id) == SelectSeq(msgs, LAMBDA m : m.id # id)

\* A run of whitespace characters.
Spaces(n) == <<[w |-> 1, k |-> n, ws |-> TRUE]>>
IsSpace(run) == "ws" \in DOMAIN run

\* String.prototype.trim: the text without its leading and trailing whitespace.
RECURSIVE TrimStart(_)
TrimStart(t) == IF t = <<>> \/ ~IsSpace(Head(t)) THEN t ELSE TrimStart(Tail(t))
RECURSIVE TrimEnd(_)
TrimEnd(t) == IF t = <<>> \/ ~IsSpace(t[Len(t)]) THEN t ELSE TrimEnd(SubSeq(t, 1, Len(t) - 1))
Trim(t) == TrimEnd(TrimStart(t))

\* What a sendMessage holds of the state of the render that built it
\* (useCallback on [client, connected, inputMessage, sending], line 136).
NoClosure ==
  [sending |-> FALSE, connected |-> FALSE, input |-> EmptyText, mic |-> FALSE, camera |-> FALSE]
Snapshot ==
  [sending |-> sending, connected |-> connected, input |-> inputMessage,
   mic |-> mic.enabled, camera |-> cam.enabled]

\* A variant of ClearInput: a sendMessage that leaves the input as it is.
ClearInputKeep(t) == t

\* setInputMessage(''), line 124.
ClearInput(t) == EmptyText

\* sendMessage up to its await, lines 110-126, called with the input t, the
\* sending flag and the connected flag of its closure.  Nothing happens on a
\* blank input, when not connected or while a send is running (line 111).
SendMessageFrom(t, capSending, capConnected) ==
  /\ ops < MaxOps /\ Len(sends) < MaxSends
  /\ ops' = ops + 1
  /\ Trim(t) # EmptyText /\ capConnected /\ ~capSending               \* line 111
  /\ sends' = Append(sends, NewSend("chat", t, Split(t)))
  /\ messages' = Append(messages,
                   [id |-> MessageId(Len(sends) + 1), text |-> <<<<"input", Len(sends) + 1>>>>,
                    isSentByMe |-> TRUE, isSystemMessage |-> FALSE,
                    systemType |-> "undefined", timestamp |-> now])   \* lines 116-123
  /\ sending' = TRUE                                               \* line 113
  /\ inputMessage' = ClearInput(inputMessage)                     \* line 124
  /\ arrived' = <<>>
  /\ UNCHANGED <<apiSet, isJoined, connected, session, clientConn, joinOwner,
                 joinListeners, nqListeners, smListener, procs, created, createCalls,
                 joinCalls, closeCalls, lastDone, chatListener, chatSeen, isAvatarSpeaking,
                 now, rxlog, oldSeen, uncaught, alerts, mediaVars, configVars, effectVars,
                 closure, cam, mic, txlog, clock>>

\* The user types one of texts and sends it; the component was rendered in
\* between, so sendMessage holds the state as it is.
SendMessage(texts) == \E t \in texts : SendMessageFrom(t, sending, connected)

\* The texts typed in the send specification: nothing, whitespace, a short
\* text, a text with whitespace around it.
Inputs == {EmptyText, Spaces(2), Ascii(3), Spaces(1) \o Ascii(3) \o Spaces(1)}

\* The user edits the input field (ChatInterface/index.tsx line 570; the field
\* of the last render is enabled while connected, line 567).
TypeInput ==
  /\ closure.connected
  /\ \E t \in Inputs : t # inputMessage /\ inputMessage' = t
  /\ UNCHANGED <<orchVars, chatVars, alerts, mediaVars, configVars, sendVars, effectVars,
                 closure, cam, mic>>

\* sendMessage is called (Enter or the send button, lines 571-574): the one the
\* last render built, with the state of that render.
SendClicked == SendMessageFrom(closure.input, closure.sending, closure.connected)

\* App and ChatInterface render with the current state, and the effects of
\* that render run: the effects of ChatInterface on connected, then the cleanup
\* effect of App (App.tsx lines 71-82; cleanupCamera awaits nothing, cleanupAudio
\* runs up to its first await).  From now on the handlers are those of this
\* render.
Commit ==
  /\ closure # Snapshot \/ chatSeen # connected
  /\ AudioCleanupDue => Len(mic.calls) < MaxCalls
  /\ closure' = Snapshot
  /\ IF chatSeen # connected
       THEN ChatEffectBody
       ELSE UNCHANGED <<chatSeen, chatListener, messages, rxlog, inputMessage>>
  /\ mic' = IF AudioCleanupDue THEN AudioCleanupBegin(mic) ELSE mic
  /\ cam' = IF CameraCleanupDue THEN CameraCleanup(cam) ELSE cam
  /\ micTrack' = IF AudioCleanupDue THEN MicLive(mic') ELSE micTrack
  /\ camTrack' = IF CameraCleanupDue THEN CameraLive(cam') ELSE camTrack
  /\ UNCHANGED <<orchVars, isAvatarSpeaking, now, oldSeen, uncaught, alerts>>
  /\ UNCHANGED <<leaveWithLiveTrack, configVars, sendVars, effectVars>>

\* The effect of useStreaming.ts lines 221-226 pushes the avatar parameters
\* again while connected: one command envelope goes to the sender.
PushParams ==
  /\ ops < MaxOps /\ Len(sends) < MaxSends
  /\ connected
  /\ ops' = ops + 1
  /\ sends' = Append(sends, NewSend("params", <<>>, <<ParamsEnvelope>>))
  /\ UNCHANGED <<apiSet, isJoined, connected, session, clientConn, joinOwner,
                 joinListeners, nqListeners, smListener, procs, created, createCalls,
                 joinCalls, closeCalls, lastDone, chatVars, alerts, mediaVars, configVars, effectVars, hookVars,
                 sending, txlog, clock, arrived>>

\* A variant of WindowBytes that counts nothing.
WindowBytesNone(log, t) == 0

\* Bytes transmitted in the last WindowMs milliseconds before t.
RECURSIVE WindowBytes(_, _)
WindowBytes(log, t) ==
  IF log = <<>> THEN 0
  ELSE (IF Head(log).t > t - WindowMs THEN Head(log).env.bytes ELSE 0) + WindowBytes(Tail(log), t)

\* The next envelope of send k.
NextEnvelope(k) == sends[k].envs[sends[k].pos + 1]

Running(k) == sends[k].state = "running" /\ sends[k].pos < Len(sends[k].envs)

\* The sender transmits the next envelope of send k: the budget of the window
\* allows it and the transport accepts it.  With the last envelope the send
\* completes, and sendMessage resets sending (line 133).
Transmit(k) ==
  /\ Running(k)
  /\ clientConn = "CONNECTED"
  /\ WindowBytes(txlog, clock) + NextEnvelope(k).bytes <= ByteBudget
  /\ txlog' = Append(txlog, [t |-> clock, send |-> k, env |-> NextEnvelope(k)])
  /\ LET last == sends[k].pos + 1 = Len(sends[k].envs)
     IN /\ sends' = [sends EXCEPT ![k].pos = @ + 1,
                                  ![k].state = IF last THEN "done" ELSE "running"]
        /\ sending' = IF last /\ sends[k].from = "chat" THEN FALSE ELSE sending
  /\ UNCHANGED <<orchVars, chatVars, alerts, mediaVars, configVars, effectVars, hookVars, clock, arrived>>

\* The transport rejects the next envelope of send k: the send fails and its
\* remaining envelopes are given up.  sendMessage catches the error, takes the
\* message off the list and resets sending, lines 127-134.
TransmitRejected(k) ==
  /\ Running(k)
  /\ WindowBytes(txlog, clock) + NextEnvelope(k).bytes <= ByteBudget
  /\ sends' = [sends EXCEPT ![k].state = "failed"]
  /\ IF sends[k].from = "chat"
       THEN /\ messages' = RemoveMessage(messages, MessageId(k))
            /\ sending' = FALSE
       ELSE UNCHANGED <<messages, sending>>
  /\ UNCHANGED <<orchVars, chatListener, chatSeen, isAvatarSpeaking, now, rxlog, oldSeen,
                 uncaught, alerts, mediaVars, configVars, effectVars, hookVars, txlog, clock, arrived>>

\* Time passes at the sender.  The clock is read against the frames
\* transmitted by a running send, so it is advanced only while there are both.
Advance ==
  /\ txlog # <<>>
  /\ \E k \in 1..Len(sends) : Running(k)
  /\ clock + ClockStep <= MaxClock
  /\ clock' = clock + ClockStep
  /\ UNCHANGED <<orchVars, chatVars, alerts, mediaVars, configVars, effectVars, hookVars, sending, sends, txlog,
                 arrived>>

\* The frames of send k the transport accepted, in the order of transmission.
Sent(k) ==
  LET sel == SelectSeq(txlog, LAMBDA e : e.send = k)
  IN [i \in 1..Len(sel) |-> sel[i].env]

\* The latest chat send, 0 if there is none.
LatestChat ==
  IF \E k \in 1..Len(sends) : sends[k].from = "chat"
    THEN CHOOSE k \in 1..Len(sends) :
           sends[k].from = "chat" /\ \A j \in (k + 1)..Len(sends) : sends[j].from # "chat"
    ELSE 0

\* The peer receives a transmitted frame of the latest chat send; the transport
\* keeps no order.
Arrive ==
  /\ LatestChat # 0
  /\ \E e \in {Sent(LatestChat)[i] : i \in 1..Len(Sent(LatestChat))} :
       /\ \A j \in 1..Len(arrived) : arrived[j] # e
       /\ arrived' = Append(arrived, e)
  /\ UNCHANGED <<orchVars, chatVars, alerts, mediaVars, configVars, effectVars, hookVars, sending, sends, txlog,
                 clock>>


(***************************************************************************)
(* Live parameter updates: updateAvatarParams and the effect that calls    *)
(* it, useStreaming.ts lines 195-208 and 221-226.                          *)
(***************************************************************************)
\* What updateAvatarParams is rebuilt on, line 208.
AvatarParams(cfg) ==
  <<cfg.voiceId, cfg.voiceUrl, cfg.language, cfg.modeType, cfg.backgroundUrl, cfg.voiceParams>>

\* A variant of ParamsDeps: an effect that depends on state.connected alone.
ParamsDepsConnectedOnly(conn, cfg) == <<conn, AvatarParams(DefaultConfig)>>

\* The dependencies of the effect, line 226: [state.connected, updateAvatarParams].
ParamsDeps(conn, cfg) == <<conn, AvatarParams(cfg)>>

\* The effect's guard, line 222: if (state.connected) { updateAvatarParams(); }
EffectPushes(conn) == conn

\* The effect runs after a render in which one of its dependencies changed, and
\* pushes the parameters of that render when connected, lines 222-226.
ParamsEffect ==
  /\ paramsSeen # ParamsDeps(connected, config)
  /\ paramsSeen' = ParamsDeps(connected, config)
  /\ IF EffectPushes(connected)
       THEN /\ metadata' = BuildAvatarMetadata(config)
            /\ initialPushes' = IF initialPushes > 0 THEN initialPushes + 1 ELSE 0
            /\ pushedOffline' = (pushedOffline \/ ~connected)
       ELSE UNCHANGED <<metadata, initialPushes, pushedOffline>>
  /\ UNCHANGED <<orchVars, chatVars, alerts, mediaVars, config, request, sendVars, cleanupOf,
                 hookVars>>

\* The configurations one edit away: the voice id, the language or the
\* knowledge id is set or cleared.
Edits(cfg) ==
  {[cfg EXCEPT !.voiceId = IF @ = NoString THEN "x" ELSE NoString],
   [cfg EXCEPT !.language = IF @ = NoString THEN "x" ELSE NoString],
   [cfg EXCEPT !.knowledgeId = IF @ = NoString THEN "x" ELSE NoString]}

\* The user edits the configuration (App.tsx lines 27-40, the setters of App's state).
ChangeConfig ==
  /\ ops < MaxOps
  /\ ops' = ops + 1
  /\ \E c \in Edits(config) :
       /\ config' = c
       /\ initialPushes' = IF AvatarParams(c) # AvatarParams(config) THEN 0 ELSE initialPushes
  /\ UNCHANGED <<apiSet, isJoined, connected, session, clientConn, joinOwner,
                 joinListeners, nqListeners, smListener, procs, created, createCalls,
                 joinCalls, closeCalls, lastDone, chatVars, alerts, mediaVars, request,
                 metadata, sendVars, cleanupOf, paramsSeen, pushedOffline,
                 hookVars>>


(***************************************************************************)
(* cleanupOldSystemMessages, useMessageState.ts lines 199-216, and the     *)
(* effect that calls it, lines 218-223.                                    *)
(***************************************************************************)
\* systemMessages.slice(-10), line 207
KeepSystem == 10
\* more system messages than this start the cleanup, line 220
CleanupThreshold == 15

\* A variant of LastN that keeps the whole sequence.
LastNAll(s, n) == s

\* The last n elements of a sequence (slice(-n)).
LastN(s, n) == SubSeq(s, Len(s) - Min(n, Len(s)) + 1, Len(s))

\* Array.prototype.sort is stable: m goes after every element whose key is not
\* greater.  The key is prev.findIndex(msg => msg.id === m.id), lines 211-213.
RECURSIVE InsertSorted(_, _, _)
InsertSorted(sorted, m, prev) ==
  IF sorted = <<>> THEN <<m>>
  ELSE IF FindIndex(prev, Head(sorted).id) <= FindIndex(prev, m.id)
    THEN <<Head(sorted)>> \o InsertSorted(Tail(sorted), m, prev)
    ELSE <<m>> \o sorted

RECURSIVE SortByFirstIndex(_, _)
SortByFirstIndex(list, prev) ==
  IF list = <<>> THEN <<>>
  ELSE InsertSorted(SortByFirstIndex(SubSeq(list, 1, Len(list) - 1), prev), list[Len(list)], prev)

\* The updater of lines 201-215.
CleanupOldSystemMessages(prev) ==
  LET systemMessages == SelectSeq(prev, LAMBDA m : m.isSystemMessage)
      regularMessages == SelectSeq(prev, LAMBDA m : ~m.isSystemMessage)
      recentSystemMessages == LastN(systemMessages, KeepSystem)
  IN SortByFirstIndex(regularMessages \o recentSystemMessages, prev)

NoCleanup == [done |-> FALSE, prev |-> <<>>]

\* The effect of lines 218-223 on a list of more than 15 system messages.
AutoCleanup ==
  /\ Len(SelectSeq(messages, LAMBDA m : m.isSystemMessage)) > CleanupThreshold
  /\ messages' = CleanupOldSystemMessages(messages)
  /\ cleanupOf' = [done |-> TRUE, prev |-> messages]
  /\ UNCHANGED <<orchVars, chatListener, chatSeen, isAvatarSpeaking, now, rxlog, oldSeen,
                 uncaught, alerts, mediaVars, configVars, sendVars, paramsSeen, initialPushes,
                 pushedOffline, hookVars>>

\* The chat lists of the cleanup specification.  Entry i of a list of len
\* entries is a chat message when i is in regular and an event message
\* otherwise; event i was handled at millisecond i, or, when paired, at
\* millisecond i \div 3: frames of one messageId handled in the same
\* millisecond give event messages of the same id (line 153).
ListEntry(i, regular, paired) ==
  IF i \in regular
    THEN [id |-> <<"chat", ToString(i)>>, text |-> <<<<"text", i>>>>, isSentByMe |-> FALSE,
          isSystemMessage |-> FALSE, systemType |-> "undefined", timestamp |-> i]
    ELSE [id |-> <<"event", "m1", IF paired THEN i \div 3 ELSE i>>,
          text |-> <<<<"Avatar started speaking", 0>>>>, isSentByMe |-> FALSE,
          isSystemMessage |-> TRUE, systemType |-> "avatar_audio_start",
          timestamp |-> IF paired THEN i \div 3 ELSE i]

MakeList(len, regular, paired) == [i \in 1..len |-> ListEntry(i, regular, paired)]

CleanupLists ==
  {MakeList(len, regular, paired) :
     len \in (CleanupThreshold - 1)..MaxList,
     regular \in {r \in SUBSET (1..MaxList) : Cardinality(r) <= 2},
     paired \in BOOLEAN}


(***************************************************************************)
(* Specifications.                                                         *)
(***************************************************************************)
\* The state after the first render, whatever the configuration.
InitState ==
  /\ apiSet = FALSE
  /\ isJoined = FALSE /\ connected = FALSE /\ session = 0        \* lines 67-72
  /\ clientConn = "DISCONNECTED" /\ joinOwner = 0
  /\ joinListeners = FALSE /\ nqListeners = 0 /\ smListener = FALSE
  /\ chatListener = FALSE /\ chatSeen = FALSE
  /\ procs = [p \in Procs |-> Idle]
  /\ ops = 0 /\ created = 0 /\ createCalls = 0 /\ joinCalls = 0
  /\ closeCalls = [s \in SessionIds |-> 0]
  /\ alerts = {}
  /\ lastDone = NoneDone
  /\ messages = <<>> /\ isAvatarSpeaking = FALSE
  /\ now = 0 /\ rxlog = <<>>
  /\ oldSeen = FALSE /\ uncaught = FALSE
  /\ micTrack = FALSE /\ camTrack = FALSE /\ leaveWithLiveTrack = FALSE
  /\ request = NoRequest /\ metadata = NoMetadata
  /\ sending = FALSE /\ sends = <<>> /\ txlog = <<>> /\ clock = 0 /\ arrived = <<>>
  /\ cleanupOf = NoCleanup /\ initialPushes = 0 /\ pushedOffline = FALSE
  /\ inputMessage = EmptyText /\ closure = NoClosure
  /\ cam = NoCamera /\ mic = NoMic

\* The parameter effect ran after the first render, not connected.
InitEffects == paramsSeen = ParamsDeps(FALSE, config)

Init == InitState /\ config = DefaultConfig /\ InitEffects

\* The steps of the running invocations in the given slots.
ProcStep(slots) ==
  \/ \E p \in slots : CreateSessionResolves(p)
  \/ \E p \in slots : CreateSessionRejects(p)
  \/ \E p \in slots : UnpublishSettles(p)
  \/ \E p \in slots : LeaveResolvesInStart(p)
  \/ \E p \in slots : LeaveResolvesInClose(p)
  \/ \E p \in slots : LeaveRejects(p)
  \/ \E p \in slots : JoinResolves(p)
  \/ \E p \in slots : JoinRejects(p)
  \/ \E p \in slots : ParamsSettle(p)
  \/ \E p \in slots : CloseSessionSettles(p)

\* The orchestrator under every interleaving of its invocations.
Next ==
  \/ SetApi
  \/ StartNoApi
  \/ StartStreaming(Procs)
  \/ CloseStreaming(Procs)
  \/ TokenDidExpire(Procs)
  \/ ProcStep(Procs)
  \/ \E p \in Procs : UnpublishRejects(p)
  \/ ChatEffects
  \/ EnableMic
  \/ EnableCamera
  \/ MediaCleanupEffect
  \/ OnException

Spec == Init /\ [][Next]_vars

\* The inbound handlers on every frame, well formed or not.
NextFrames ==
  \/ SetApi
  \/ StartNoApi
  \/ StartStreaming(OneProc)
  \/ CloseStreaming(OneProc)
  \/ TokenDidExpire(OneProc)
  \/ ProcStep(OneProc)
  \/ ChatEffects
  \/ \E f \in Frames : StreamMessage(f, MaxFrames)

SpecFrames == Init /\ [][NextFrames]_vars

\* The orchestrator under every configuration.
InitConfig == InitState /\ config \in Configs /\ InitEffects

NextConfig ==
  \/ SetApi
  \/ StartNoApi
  \/ StartStreaming(OneProc)
  \/ CloseStreaming(OneProc)
  \/ TokenDidExpire(OneProc)
  \/ ProcStep(OneProc)
  \/ ChatEffects

SpecConfig == InitConfig /\ [][NextConfig]_vars

\* The chunker: one send at a time, its frames received in any order.
NextSplit ==
  \/ SetApi
  \/ StartNoApi
  \/ StartStreaming(OneProc)
  \/ CloseStreaming(OneProc)
  \/ TokenDidExpire(OneProc)
  \/ ProcStep(OneProc)
  \/ ChatEffects
  \/ SendMessage(SplitTexts)
  \/ \E k \in 1..MaxSends : k <= Len(sends) /\ Transmit(k)
  \/ \E k \in 1..MaxSends : k <= Len(sends) /\ TransmitRejected(k)
  \/ Arrive

SpecSplit == Init /\ [][NextSplit]_vars

\* The rate-paced sender: one chat send and parameter pushes side by side.
NextPacer ==
  \/ SetApi
  \/ StartNoApi
  \/ StartStreaming(OneProc)
  \/ CloseStreaming(OneProc)
  \/ TokenDidExpire(OneProc)
  \/ ProcStep(OneProc)
  \/ ChatEffects
  \/ (\A k \in 1..Len(sends) : sends[k].from # "chat") /\ SendMessage(PacerTexts)
  \/ PushParams
  \/ \E k \in 1..MaxSends : k <= Len(sends) /\ Transmit(k)
  \/ \E k \in 1..MaxSends : k <= Len(sends) /\ TransmitRejected(k)
  \/ Advance

SpecPacer == Init /\ [][NextPacer]_vars

\* The chunks handled for the chat messages of a list, one for each.
ChunkLogOf(msgs) ==
  LET regular == SelectSeq(msgs, LAMBDA m : ~m.isSystemMessage /\ ~m.isSentByMe)
  IN [i \in 1..Len(regular) |-> <<"chat", regular[i].id[2], 0>>]

\* Receiving chat chunks: a session is active and the list holds some of a
\* message sent by the user, the first chunk of two messages of the avatar and
\* an event message; chunks of these and of a third message arrive.
MaxReceive == 3

ReceiveEntries ==
  {[id |-> MessageId(1), text |-> <<<<"input", 1>>>>, isSentByMe |-> TRUE,
    isSystemMessage |-> FALSE, systemType |-> "undefined", timestamp |-> 0],
   [id |-> <<"chat", "m1">>, text |-> <<ChunkText(0)>>, isSentByMe |-> FALSE,
    isSystemMessage |-> FALSE, systemType |-> "undefined", timestamp |-> 0],
   [id |-> <<"chat", "m2">>, text |-> <<ChunkText(0)>>, isSentByMe |-> FALSE,
    isSystemMessage |-> FALSE, systemType |-> "undefined", timestamp |-> 0],
   [id |-> <<"event", "m1", 0>>, text |-> <<<<"Avatar started speaking", 0>>>>,
    isSentByMe |-> FALSE, isSystemMessage |-> TRUE, systemType |-> "avatar_audio_start",
    timestamp |-> 0]}

\* The lists of up to three of these entries, each at most once.
ReceiveLists ==
  {l \in UNION {[1..n -> ReceiveEntries] : n \in 0..3} :
     \A i \in 1..Len(l) : \A j \in 1..Len(l) : i # j => l[i] # l[j]}

ReceiveFrames == {Chunk(2, mid, i) : mid \in {"m1", "m2", "m3"}, i \in 0..(NChunks - 1)}

InitReceive ==
  /\ apiSet = TRUE
  /\ isJoined = TRUE /\ connected = TRUE /\ session = 1
  /\ clientConn = "CONNECTED" /\ joinOwner = 0
  /\ joinListeners = TRUE /\ nqListeners = 1 /\ smListener = TRUE
  /\ chatListener = TRUE /\ chatSeen = TRUE
  /\ procs = [p \in Procs |-> Idle]
  /\ created = 1 /\ createCalls = 1 /\ joinCalls = 1
  /\ closeCalls = [s \in SessionIds |-> 0]
  /\ alerts = {}
  /\ lastDone = [kind |-> "start", origin |-> "click", live |-> 0, active |-> FALSE, ok |-> TRUE]
  /\ messages \in ReceiveLists
  /\ ops = 1 + Cardinality({i \in 1..Len(messages) : messages[i].isSentByMe})
  /\ isAvatarSpeaking = \E i \in 1..Len(messages) : messages[i].isSystemMessage
  /\ now = 0 /\ rxlog = ChunkLogOf(messages)
  /\ oldSeen = FALSE /\ uncaught = FALSE
  /\ micTrack = FALSE /\ camTrack = FALSE /\ leaveWithLiveTrack = FALSE
  /\ config = DefaultConfig
  /\ request = CreateSessionRequest(config) /\ metadata = BuildAvatarMetadata(config)
  /\ sending = FALSE /\ txlog = <<>> /\ clock = 0 /\ arrived = <<>>
  /\ sends = IF \E i \in 1..Len(messages) : messages[i].isSentByMe
               THEN <<[NewSend("chat", Ascii(3), Split(Ascii(3))) EXCEPT !.pos = 1, !.state = "done"]>>
               ELSE <<>>
  /\ cleanupOf = NoCleanup /\ paramsSeen = ParamsDeps(TRUE, config)
  /\ initialPushes = 2 /\ pushedOffline = FALSE
  /\ inputMessage = EmptyText /\ closure = [NoClosure EXCEPT !.connected = TRUE]
  /\ cam = NoCamera /\ mic = NoMic

NextReceive ==
  \/ Tick
  \/ \E f \in ReceiveFrames : StreamMessage(f, MaxReceive)

SpecReceive == InitReceive /\ [][NextReceive]_vars

\* The chat input: the user types and sends while the orchestrator runs;
\* renders happen at no fixed point between the calls of sendMessage.
NextSend ==
  \/ SetApi
  \/ StartStreaming(OneProc)
  \/ CloseStreaming(OneProc)
  \/ ProcStep(OneProc)
  \/ TypeInput
  \/ SendClicked
  \/ Commit
  \/ \E k \in 1..MaxSends : k <= Len(sends) /\ Transmit(k)
  \/ \E k \in 1..MaxSends : k <= Len(sends) /\ TransmitRejected(k)

SpecSend == Init /\ [][NextSend]_vars

\* The microphone: the button is clicked while the orchestrator runs, the
\* awaits of toggleMic and cleanup settle in any order and either way, and
\* renders happen at no fixed point in between.
NextMic ==
  \/ SetApi
  \/ StartStreaming(OneProc)
  \/ CloseStreaming(OneProc)
  \/ ProcStep(OneProc)
  \/ Commit
  \/ ToggleMicInternal
  \/ \E i \in 1..MaxCalls : MicStep(i)

SpecMic == Init /\ [][NextMic]_vars

\* The camera: the same with the camera button and the awaits of enableCamera
\* and disableCamera.
NextCamera ==
  \/ SetApi
  \/ StartStreaming(OneProc)
  \/ CloseStreaming(OneProc)
  \/ ProcStep(OneProc)
  \/ Commit
  \/ ToggleCameraInternal
  \/ \E i \in 1..MaxCalls : CameraStep(i)

SpecCamera == Init /\ [][NextCamera]_vars

\* The cleanup of the chat list: a session is active after one start, and the
\* chat list is one of CleanupLists.
InitCleanup ==
  /\ apiSet = TRUE
  /\ isJoined = TRUE /\ connected = TRUE /\ session = 1
  /\ clientConn = "CONNECTED" /\ joinOwner = 0
  /\ joinListeners = TRUE /\ nqListeners = 1 /\ smListener = TRUE
  /\ chatListener = TRUE /\ chatSeen = TRUE
  /\ procs = [p \in Procs |-> Idle]
  /\ ops = 1 /\ created = 1 /\ createCalls = 1 /\ joinCalls = 1
  /\ closeCalls = [s \in SessionIds |-> 0]
  /\ alerts = {}
  /\ lastDone = [kind |-> "start", origin |-> "click", live |-> 0, active |-> FALSE, ok |-> TRUE]
  /\ messages \in CleanupLists
  /\ isAvatarSpeaking = TRUE
  /\ now = MaxList /\ rxlog = ChunkLogOf(messages)
  /\ oldSeen = FALSE /\ uncaught = FALSE
  /\ micTrack = FALSE /\ camTrack = FALSE /\ leaveWithLiveTrack = FALSE
  /\ config = DefaultConfig
  /\ request = CreateSessionRequest(config) /\ metadata = BuildAvatarMetadata(config)
  /\ sending = FALSE /\ sends = <<>> /\ txlog = <<>> /\ clock = 0 /\ arrived = <<>>
  /\ cleanupOf = NoCleanup /\ paramsSeen = ParamsDeps(TRUE, config)
  /\ initialPushes = 2 /\ pushedOffline = FALSE
  /\ inputMessage = EmptyText /\ closure = [NoClosure EXCEPT !.connected = TRUE]
  /\ cam = NoCamera /\ mic = NoMic

NextCleanup == AutoCleanup

SpecCleanup == InitCleanup /\ [][NextCleanup]_vars

\* Live parameter updates: the configuration is edited while the orchestrator
\* runs, and the parameter effect runs after every render that changed its
\* dependencies.
NextParams ==
  \/ SetApi
  \/ StartStreaming(OneProc)
  \/ CloseStreaming(OneProc)
  \/ ProcStep(OneProc)
  \/ ChatEffects
  \/ ChangeConfig
  \/ ParamsEffect

SpecParams == Init /\ [][NextParams]_vars /\ WF_vars(ParamsEffect)

\* The chat list under the chunks of a chat message and command acknowledgments.
NextChat ==
  \/ SetApi
  \/ StartNoApi
  \/ StartStreaming(OneProc)
  \/ CloseStreaming(OneProc)
  \/ TokenDidExpire(OneProc)
  \/ ProcStep(OneProc)
  \/ ChatEffects
  \/ Tick
  \/ \E f \in ChatFrames : StreamMessage(f, MaxChatFrames)

SpecChat == Init /\ [][NextChat]_vars


(***************************************************************************)
(* Reading the chat list.                                                  *)
(***************************************************************************)
Mids == {"m1"}

\* The chunk indices handled for messageId mid since the list was last cleared,
\* in arrival order.
Received(mid) ==
  LET sel == SelectSeq(rxlog, LAMBDA e : e[1] = "chat" /\ e[2] = mid)
  IN [i \in 1..Len(sel) |-> sel[i][3]]

\* The number of command acknowledgments handled for messageId mid since the
\* list was last cleared.
AcksHandled(mid) == Len(SelectSeq(rxlog, LAMBDA e : e[1] = "command" /\ e[2] = mid))

\* Every chunk up to the one marked final has been handled.
Complete(mid) == \A k \in 0..(NChunks - 1) : \E i \in 1..Len(Received(mid)) : Received(mid)[i] = k

\* Every chunk has been handled exactly once.
EachOnce(mid) == Complete(mid) /\ Len(Received(mid)) = NChunks

HasChat(mid) == FindIndex(messages, <<"chat", mid>>) # 0
ChatText(mid) == messages[FindIndex(messages, <<"chat", mid>>)].text

\* The chunk texts in chunkIndex order.
InOrderText == [i \in 1..NChunks |-> ChunkText(i - 1)]

\* The entries of the list made from command acknowledgments of messageId mid.
AckEntries(mid) ==
  {i \in 1..Len(messages) : messages[i].isSystemMessage /\ messages[i].id[1] = "cmd_ack"
                            /\ messages[i].id[2] = mid}

(***************************************************************************)
(* The claims.                                                             *)
(***************************************************************************)

\* C1 (as claimed): once every chunk of a chat message has been handled exactly
\* once, in whatever order, the message text is the concatenation of the chunk
\* texts in chunkIndex order.
C1_TextInIndexOrder ==
  \A mid \in Mids : EachOnce(mid) => HasChat(mid) /\ ChatText(mid) = InOrderText

C9_ImmutableOnceComplete ==
  [][\A mid \in Mids :
       (Complete(mid) /\ HasChat(mid) /\ HasChat(mid)') => ChatText(mid)' = ChatText(mid)]_vars

\* C4 (as claimed): when the token-privilege-did-expire notification reaches an
\* active orchestrator, the teardown it starts invokes closeSession exactly once
\* with the id of the created session.
C4_ExpireClosesSession ==
  (lastDone.kind = "close" /\ lastDone.origin = "expire" /\ lastDone.active /\ lastDone.ok)
    => closeCalls[lastDone.live] = 1

\* C5: a startStreaming that follows a completed startStreaming with no stop
\* between (it sees isJoined true) performs exactly one leave sequence, and that
\* leave has completed when this startStreaming invokes client.join; a
\* startStreaming that sees isJoined false performs none.
C5_OneLeaveBeforeSecondJoin ==
  \A p \in Procs :
    (procs[p].kind = "start" /\ procs[p].pc \in {"join", "params"})
      => procs[p].leaves = (IF procs[p].capJoined THEN 1 ELSE 0)

\* C5 witness: the second startStreaming has left once and waits in client.join.
C5_SecondStartJoining ==
  \E p \in Procs : /\ procs[p].kind = "start" /\ procs[p].active /\ procs[p].capJoined
                   /\ procs[p].pc = "join" /\ procs[p].leaves = 1
                   /\ procs[p].joinedFrom = "DISCONNECTED"

\* C6 (as claimed): under every interleaving, client.join is invoked only on a
\* client that is in no channel and joining none.
C6_JoinOnlyWhenDisconnected ==
  \A p \in Procs : procs[p].pc = "join" => procs[p].joinedFrom = "DISCONNECTED"

\* C7: a frame whose version is not 2 is dropped by both handlers without a
\* throw: the message list, the speaking flag, the orchestrator state and the
\* alerts are as before.
C7_WrongVersionIgnored ==
  [][\/ /\ messages' = messages
        /\ isAvatarSpeaking' = isAvatarSpeaking
        /\ alerts' = alerts
        /\ uncaught' = uncaught
        /\ <<isJoined, connected, session>>' = <<isJoined, connected, session>>
     \/ \A f \in Frames :
          ~(f.shape = "obj" /\ f.v # 2 /\ StreamMessage(f, MaxFrames))]_vars

\* C7 witness: a frame of another version was delivered to both handlers and
\* nothing is shown and nothing was thrown.
C7_OldFrameDropped ==
  /\ oldSeen /\ smListener /\ chatListener
  /\ messages = <<>> /\ ~uncaught /\ alerts = {}

\* C8 (as claimed): no inbound frame makes a stream-message handler throw.
C8_NoUncaughtThrow == ~uncaught

\* C10: while api is absent, startStreaming only alerts: createSession and
\* client.join are never invoked, no listener is registered and the state is the
\* initial one.
C10_NoApiNoEffect ==
  ~apiSet =>
    /\ createCalls = 0 /\ joinCalls = 0
    /\ ~joinListeners /\ nqListeners = 0 /\ ~smListener
    /\ ~isJoined /\ ~connected /\ session = 0
    /\ \A p \in Procs : procs[p].kind # "start"

\* C10 witness: startStreaming was invoked without api and has returned.
C10_StartRefused ==
  ~apiSet /\ "no_api" \in alerts /\ lastDone.kind = "start" /\ ~lastDone.ok

\* C11: closeStreaming invokes closeSession last: when the call is in flight
\* this closeStreaming has left the chat and its client.leave has resolved, and
\* the id passed is that of the session startStreaming stored; a closeStreaming
\* from the UI that returns with a session present has invoked it.
C11_CloseSessionLast ==
  /\ \A p \in Procs :
       (procs[p].kind = "close" /\ procs[p].pc = "closing")
         => /\ procs[p].leaves = 1
            /\ procs[p].capSession # 0
            /\ procs[p].capSession = procs[p].live
            /\ closeCalls[procs[p].live] >= 1
  /\ \A s \in SessionIds : closeCalls[s] > 0 => s <= created
  /\ (lastDone.kind = "close" /\ lastDone.origin = "click" /\ lastDone.ok /\ lastDone.live # 0)
       => closeCalls[lastDone.live] >= 1

\* C11 witness: closeSession is in flight for the stored session, the chat left
\* and the channel left.
C11_ClosingAfterLeave ==
  \E p \in Procs : /\ procs[p].kind = "close" /\ procs[p].pc = "closing"
                   /\ procs[p].active /\ procs[p].leaves = 1
                   /\ closeCalls[procs[p].live] = 1
                   /\ ~connected /\ ~smListener /\ clientConn = "DISCONNECTED"

\* C12 (as claimed): a closeStreaming called in the active state with the
\* microphone or camera enabled never calls client.leave() while a local track
\* is still live.
C12_TracksStoppedBeforeLeave == ~leaveWithLiveTrack

\* C13 (as claimed): once a closeStreaming called from the UI in the active state has
\* completed and nothing else runs, none of the orchestrator's listeners is left
\* on the client.
C13_NoListenerAfterClose ==
  (/\ lastDone.kind = "close" /\ lastDone.origin = "click" /\ lastDone.active /\ lastDone.ok
   /\ \A p \in Procs : procs[p].kind = "none")
    => (~joinListeners /\ nqListeners = 0 /\ ~smListener)

\* C14 (as claimed): connected becomes true only in the step in which the
\* initial setAvatarParams of a startStreaming resolves successfully.
C14_ConnectedAfterPush ==
  [][(~connected /\ connected') =>
       \E p \in Procs : /\ procs[p].kind = "start" /\ procs[p].pc = "params"
                        /\ procs'[p].kind = "none" /\ lastDone'.ok]_vars

\* C15 (as claimed): the 'exception' event received while joined starts the
\* teardown: isJoined and connected become false and a closeStreaming runs.
C15_ExceptionTearsDown ==
  [][OnException =>
       (~isJoined' /\ ~connected' /\ \E p \in Procs : procs'[p].kind = "close")]_vars

\* C16: in every createSession request and in every set-params metadata an
\* optional field is present exactly when the configured value is truthy (voice
\* params: has a key), a present optional field carries that value, and
\* avatar_id and duration are always in the request.
C16_OptionalFieldsIffGiven ==
  /\ request.sent =>
       /\ request.avatar_id = Present(config.avatarId)
       /\ request.duration = Present(config.sessionDuration * 60)
       /\ (request.knowledge_id.present <=> config.knowledgeId # "")
       /\ (request.voice_id.present <=> config.voiceId # "")
       /\ (request.voice_url.present <=> config.voiceUrl # "")
       /\ (request.language.present <=> config.language # "")
       /\ (request.mode_type.present <=> config.modeType # 0)
       /\ (request.background_url.present <=> config.backgroundUrl # "")
       /\ (request.voice_params.present <=> config.voiceParams # {})
       /\ (request.knowledge_id.present => request.knowledge_id.value = config.knowledgeId)
       /\ (request.voice_id.present => request.voice_id.value = config.voiceId)
       /\ (request.voice_url.present => request.voice_url.value = config.voiceUrl)
       /\ (request.language.present => request.language.value = config.language)
       /\ (request.mode_type.present => request.mode_type.value = config.modeType)
       /\ (request.background_url.present => request.background_url.value = config.backgroundUrl)
       /\ (request.voice_params.present => request.voice_params.value = config.voiceParams)
  /\ metadata.sent =>
       /\ (metadata.vid.present <=> config.voiceId # "")
       /\ (metadata.vurl.present <=> config.voiceUrl # "")
       /\ (metadata.lang.present <=> config.language # "")
       /\ (metadata.mode.present <=> config.modeType # 0)
       /\ (metadata.bgurl.present <=> config.backgroundUrl # "")
       /\ (metadata.vparams.present <=> config.voiceParams # {})
       /\ (metadata.vid.present => metadata.vid.value = config.voiceId)
       /\ (metadata.vurl.present => metadata.vurl.value = config.voiceUrl)
       /\ (metadata.lang.present => metadata.lang.value = config.language)
       /\ (metadata.mode.present => metadata.mode.value = config.modeType)
       /\ (metadata.bgurl.present => metadata.bgurl.value = config.backgroundUrl)
       /\ (metadata.vparams.present => metadata.vparams.value = config.voiceParams)

\* C16 witness: a request and a metadata were sent for a configuration with an
\* empty voice id, no voice params and a language, and only the language is in them.
C16_EmptyFieldsOmitted ==
  /\ request.sent /\ metadata.sent
  /\ config.voiceId = "" /\ config.voiceParams = {} /\ config.language # ""
  /\ ~request.voice_id.present /\ ~request.voice_params.present /\ request.language.present
  /\ ~metadata.vid.present /\ ~metadata.vparams.present /\ metadata.lang.present

(***************************************************************************)
(* Reading the outbound path.                                              *)
(***************************************************************************)
ChatSends == {k \in 1..Len(sends) : sends[k].from = "chat"}

\* The whole of a text, character by character.
WholeText(t) == Piece(t, 1, TextLen(t))

\* Bytes of the frames of a log.
RECURSIVE LogBytes(_)
LogBytes(log) == IF log = <<>> THEN 0 ELSE Head(log).env.bytes + LogBytes(Tail(log))

\* Bytes the transport accepted in the one-second window that ends at instant u.
BytesInWindow(u) == LogBytes(SelectSeq(txlog, LAMBDA e : e.t > u - WindowMs /\ e.t <= u))

\* Bytes of all the envelopes of send k.
RECURSIVE EnvelopeBytes(_)
EnvelopeBytes(envs) == IF envs = <<>> THEN 0 ELSE Head(envs).bytes + EnvelopeBytes(Tail(envs))

\* C17: a text whose single-frame envelope is over 950 bytes is split into N > 1
\* envelopes, each of at most 950 bytes, with idx 0..N-1 and fin on the last
\* alone, and once all N arrived, in whatever order, putting their pieces
\* together by idx gives the text back character for character.
C17_LargePayloadChunks ==
  \A k \in ChatSends :
    EncodedSize(sends[k].text) > MaxFrameBytes =>
      LET e == sends[k].envs
          t == sends[k].text
      IN /\ Len(e) > 1
         /\ \A i \in 1..Len(e) :
              /\ e[i].hasIdx /\ e[i].idx = i - 1
              /\ e[i].fin = (i = Len(e))
              /\ e[i].bytes = FrameOverhead + ChunkFieldsBytes + RangeBytes(t, e[i].lo, e[i].hi)
              /\ e[i].bytes <= MaxFrameBytes
         /\ (k = LatestChat /\ Len(arrived) = Len(e)) => ReassembleByIndex(t, arrived) = WholeText(t)

\* C17 witness: the three chunks of a text arrived, the last of them first.
C17_ChunksArrivedOutOfOrder ==
  /\ LatestChat # 0
  /\ Len(sends[LatestChat].envs) = 3
  /\ Len(arrived) = 3 /\ arrived[1].idx = 2 /\ arrived[2].idx = 0

\* C18: a text whose single-frame envelope is of at most 950 bytes is sent as
\* exactly one envelope, without idx, that carries the whole text.
C18_SmallPayloadOneEnvelope ==
  \A k \in ChatSends :
    EncodedSize(sends[k].text) <= MaxFrameBytes =>
      /\ Len(sends[k].envs) = 1
      /\ ~sends[k].envs[1].hasIdx
      /\ sends[k].envs[1].lo = 1 /\ sends[k].envs[1].hi = TextLen(sends[k].text)
      /\ sends[k].envs[1].bytes = EncodedSize(sends[k].text)

\* C18 witness: a text whose envelope is of exactly 950 bytes was transmitted in one frame.
C18_ExactlyFullFrameSent ==
  \E k \in ChatSends :
    /\ EncodedSize(sends[k].text) = MaxFrameBytes
    /\ sends[k].state = "done" /\ Len(Sent(k)) = 1 /\ ~Sent(k)[1].hasIdx

C20_RejectionAbortsSend ==
  [][\A k \in 1..Len(sends) :
       /\ sends[k].state = "failed" =>
            /\ sends'[k].state = "failed"
            /\ SelectSeq(txlog', LAMBDA e : e.send = k) = SelectSeq(txlog, LAMBDA e : e.send = k)
       /\ (sends[k].state = "running" /\ sends'[k].state = "failed") =>
            /\ SelectSeq(txlog', LAMBDA e : e.send = k) = SelectSeq(txlog, LAMBDA e : e.send = k)
            /\ sends[k].from = "chat" =>
                 /\ ~sending'
                 /\ \A i \in 1..Len(messages') : messages'[i].id # MessageId(k)]_vars

\* C20 witness: a chunked chat send failed after its first chunk was
\* transmitted; that chunk is still in the log and the next one is not.
C20_FailedAfterFirstChunk ==
  \E k \in ChatSends :
    /\ sends[k].state = "failed"
    /\ Len(sends[k].envs) > 1
    /\ sends[k].pos = 1 /\ Len(Sent(k)) = 1 /\ Sent(k)[1].idx = 0

(***************************************************************************)
(* Reading the cleanup of the chat list and the parameter pushes.          *)
(***************************************************************************)
\* Entry i of a list is a chat message or one of the last KeepSystem system messages.
KeptIndex(prev, i) ==
  \/ ~prev[i].isSystemMessage
  \/ Cardinality({j \in (i + 1)..Len(prev) : prev[j].isSystemMessage}) < KeepSystem

\* The entries of a list from i on that are kept, in the order of the list.
RECURSIVE RetainedFrom(_, _)
RetainedFrom(prev, i) ==
  IF i > Len(prev) THEN <<>>
  ELSE (IF KeptIndex(prev, i) THEN <<prev[i]>> ELSE <<>>) \o RetainedFrom(prev, i + 1)

Retained(prev) == RetainedFrom(prev, 1)

\* C21: after cleanupOldSystemMessages the list holds every chat message and
\* the last 10 system messages of the list it ran on, in the order they had
\* there, and a second cleanup changes nothing.
C21_CleanupKeepsRecentInOrder ==
  cleanupOf.done =>
    /\ messages = Retained(cleanupOf.prev)
    /\ CleanupOldSystemMessages(messages) = messages

\* C22 (as claimed): no closeStreaming called in the active state calls
\* client.unpublish() while a local track it covers is still open, that is
\* neither stopped nor closed.
C22_TracksStoppedBeforeUnpublish ==
  \A p \in Procs :
    (procs[p].kind = "close" /\ procs[p].pc = "unpublish" /\ procs[p].active)
      => ~procs[p].tracks

\* C23: while connected stays false, after a leaveChat as before the first
\* start, no step is the handling of an inbound frame: the avatar-speaking flag
\* keeps its value, no command-failure alert is raised, and the message list
\* changes only when ChatInterface's effect clears it.
C23_NoFrameHandledWhenClosed ==
  [][(~connected /\ ~connected') =>
       /\ isAvatarSpeaking' = isAvatarSpeaking
       /\ ("cmd_failed" \in alerts') => ("cmd_failed" \in alerts)
       /\ rxlog' \in {rxlog, <<>>}
       /\ (messages' # messages) => (messages' = <<>> /\ chatSeen /\ ~chatSeen')]_vars

\* C23, its case: closeStreaming has run leaveChat in the active state, the
\* client is still in the channel, where frames can arrive, and the list still
\* shows what was received.
C23_ClosedStillInChannel ==
  /\ ~connected /\ clientConn = "CONNECTED"
  /\ \E p \in Procs : procs[p].kind = "close" /\ procs[p].active /\ procs[p].pc = "unpublish"
  /\ Len(messages) > 0

\* C24 (as claimed): at any time the client holds at most one registration of
\* the orchestrator's 'network-quality' handler, however many times the
\* channel was joined.
C24_EachHandlerOnce == nqListeners <= 1

\* C25 (as claimed): closeSession is never called twice for a session, and
\* once a closeStreaming called from the UI has completed and nothing else
\* runs, it was called exactly once for every session created.
C25_EachSessionClosedOnce ==
  /\ \A s \in SessionIds : closeCalls[s] <= 1
  /\ (/\ lastDone.kind = "close" /\ lastDone.origin = "click" /\ lastDone.ok
      /\ \A p \in Procs : procs[p].kind = "none")
       => \A s \in 1..created : closeCalls[s] = 1

\* C26: when createSession or client.join rejects, startStreaming rejects to
\* its caller in that step, without calling createSession or client.join
\* again and without running joinChat (no stream-message listener, no
\* parameter push, connected untouched); and no step of a startStreaming
\* before its client.join resolves sets isJoined or connected to true.
C26_RejectionPropagates ==
  [][\A p \in Procs :
       /\ (/\ procs[p].kind = "start" /\ procs[p].pc \in {"create", "join"}
           /\ procs'[p].kind = "none")
            => /\ lastDone'.kind = "start" /\ ~lastDone'.ok
               /\ createCalls' = createCalls /\ joinCalls' = joinCalls
               /\ smListener' = smListener /\ metadata' = metadata
               /\ initialPushes' = initialPushes
               /\ isJoined' = isJoined /\ connected' = connected
       /\ (/\ procs[p].kind = "start" /\ procs'[p] # procs[p]
           /\ procs'[p].pc # "params")
            => /\ isJoined' => isJoined
               /\ connected' => connected]_vars

\* C26, its case: the only startStreaming so far created its session and
\* rejected because client.join rejected.
C26_StartRejectedAtJoin ==
  /\ lastDone.kind = "start" /\ ~lastDone.ok
  /\ createCalls = 1 /\ created = 1 /\ joinCalls = 1
  /\ ~isJoined /\ ~connected /\ ~smListener
  /\ \A p \in Procs : procs[p].kind = "none"

\* C27 (as claimed): in every reachable state, connected implies isJoined.
C27_ConnectedImpliesJoined == connected => isJoined

\* C28: a parameter changed while connected is followed, unless connected
\* becomes false first, by a run of the parameter effect for the changed
\* values; every run of the effect while connected pushes the metadata built
\* from the current configuration; and no push is made while connected is false.
C28_ChangedParamsPushed ==
  /\ (connected /\ paramsSeen[2] # AvatarParams(config))
        ~> (~connected \/ paramsSeen[2] = AvatarParams(config))
  /\ [][(connected /\ connected' /\ paramsSeen' # paramsSeen)
          => metadata' = BuildAvatarMetadata(config)]_vars
  /\ [][metadata' # metadata => connected']_vars
  /\ []~pushedOffline

\* C28, its case: a parameter was changed while connected and the effect has
\* pushed the metadata of the new configuration.
C28_LiveUpdatePushed ==
  /\ connected
  /\ AvatarParams(config) # AvatarParams(DefaultConfig)
  /\ paramsSeen = <<TRUE, AvatarParams(config)>>
  /\ metadata = BuildAvatarMetadata(config)
  /\ initialPushes = 0

\* C29 (as claimed): while connected and until a parameter changes,
\* setAvatarParams has been called at most once since the start reached
\* connected.
C29_InitialPushOnce == connected => initialPushes <= 1

\* C30: the step in which an invocation reaches await client.unpublish()
\* leaves isJoined false and the five join listeners removed, and whether
\* the unpublish resolves or rejects the invocation's next step calls
\* client.leave().
C30_LeaveChannelAlwaysLeaves ==
  [][\A p \in Procs :
       /\ (procs[p].pc # "unpublish" /\ procs'[p].pc = "unpublish")
            => (~isJoined' /\ ~joinListeners')
       /\ (procs[p].pc = "unpublish" /\ procs'[p] # procs[p])
            => /\ procs'[p].pc = "leave"
               /\ clientConn' \in {"DISCONNECTED", "DISCONNECTING"}
               /\ joinOwner' = 0]_vars

\* C30, its case: client.unpublish() rejected in a closeStreaming called in the
\* active state, and client.leave() was called all the same.
C30_LeftAfterRejectedUnpublish ==
  \E p \in Procs :
    /\ procs[p].kind = "close" /\ procs[p].active
    /\ procs[p].pc = "leave" /\ procs[p].caught
    /\ clientConn = "DISCONNECTING" /\ ~isJoined

(***************************************************************************)
(* Reading the chat input.                                                 *)
(***************************************************************************)
\* The chat sends whose sendMessageToAvatar has not settled.
InFlight == {k \in 1..Len(sends) : sends[k].from = "chat" /\ sends[k].state = "running"}

\* C31 (as claimed): at most one call of sendMessageToAvatar is unsettled at
\* any time, and none is while connected is false and the list was cleared.
C31_OneSendInFlight == Cardinality(InFlight) <= 1

C33_ChunkChangesOwnMessage ==
  [][(Len(rxlog') = Len(rxlog) + 1 /\ rxlog'[Len(rxlog')][1] = "chat") =>
       LET e == rxlog'[Len(rxlog')]
           id == <<"chat", e[2]>>
           own == {i \in 1..Len(messages) : messages[i].id = id}
       IN IF own # {}
            THEN /\ Cardinality(own) = 1
                 /\ Len(messages') = Len(messages)
                 /\ \A i \in 1..Len(messages) :
                      messages'[i] = IF i \in own
                                       THEN [messages[i] EXCEPT
                                               !.text = messages[i].text \o <<ChunkText(e[3])>>]
                                       ELSE messages[i]
            ELSE /\ Len(messages') = Len(messages) + 1
                 /\ SubSeq(messages', 1, Len(messages)) = messages
                 /\ messages'[Len(messages')].id = id
                 /\ messages'[Len(messages')].text = <<ChunkText(e[3])>>
                 /\ ~messages'[Len(messages')].isSentByMe]_vars

\* C33, its case: a further chunk of message m2 was handled later than the
\* first, in a list that also holds a message sent by the user and the first
\* chunk of message m1.
C33_SecondChunkAmongOthers ==
  /\ now > 0
  /\ \E i \in 1..Len(messages) :
       /\ messages[i].id = <<"chat", "m2">> /\ Len(messages[i].text) = 2
       /\ messages[i].timestamp = 0
  /\ \E i \in 1..Len(messages) : messages[i].isSentByMe
  /\ \E i \in 1..Len(messages) :
       messages[i].id = <<"chat", "m1">> /\ Len(messages[i].text) = 1

\* How many entries of a list are equal to r, and how many are system messages.
Copies(list, r) == Cardinality({i \in 1..Len(list) : list[i] = r})
SystemCount(list) == Cardinality({i \in 1..Len(list) : list[i].isSystemMessage})

\* C34: once the cleanup effect has run on a list of more than 15 system
\* messages, the list holds exactly 10 system messages, so no more than 15;
\* its entries are, each as many times as there, the chat messages of the
\* list it ran on and the last 10 system messages of that list.
C34_SystemMessagesBounded ==
  cleanupOf.done =>
    /\ SystemCount(cleanupOf.prev) > 15
    /\ SystemCount(messages) = 10
    /\ Len(messages) = Len(Retained(cleanupOf.prev))
    /\ \A i \in 1..Len(cleanupOf.prev) :
         Copies(messages, cleanupOf.prev[i]) = Copies(Retained(cleanupOf.prev), cleanupOf.prev[i])

\* C34, its case: the cleanup ran on a list of 16 system messages and a chat
\* message, and the chat message is still there.
C34_CleanedWithChatMessage ==
  /\ cleanupOf.done
  /\ Len(cleanupOf.prev) = 17 /\ SystemCount(cleanupOf.prev) = 16
  /\ \E i \in 1..Len(messages) : ~messages[i].isSystemMessage

(***************************************************************************)
(* Reading the local devices.                                              *)
(***************************************************************************)
\* No call of the microphone hook is at an await.
MicSettled == \A i \in 1..Len(mic.calls) : mic.calls[i].pc = "done"

\* No call of the camera hook is at an await.
CameraSettled == \A i \in 1..Len(cam.calls) : cam.calls[i].pc \in {"resolved", "failed"}

\* Nothing is running and the last render and its effects saw the current
\* state.
Quiescent ==
  /\ \A p \in Procs : procs[p] = Idle
  /\ InFlight = {}
  /\ MicSettled /\ CameraSettled
  /\ closure = Snapshot /\ chatSeen = connected

\* C35: in every quiescent state with connected false the message list and the
\* input text are empty.
C35_ClearedWhenDisconnected ==
  (Quiescent /\ ~connected) => (messages = <<>> /\ inputMessage = EmptyText)

\* C38: whenever micEnabled is false in a quiescent state, every microphone
\* track created by toggleMic has been closed.
C38_NoMicTrackLeaks ==
  (Quiescent /\ ~mic.enabled) => mic.open = {}

\* C36: every camera track created by the hook is the one held in
\* videoTrackRef or has been closed.
C36_OneCameraTrackOpen == cam.open \subseteq {cam.ref}

\* C37: in every quiescent state cameraEnabled is true exactly when
\* localVideoTrack is non-null.
C37_CameraStateConsistent == Quiescent => (cam.enabled <=> cam.local # 0)

=============================================================================
